---- MODULE Spec2Model ----
(***************************************************************************)
(* CacheSimlab: the set-associative cache engine (SetAssociativeCache,     *)
(* CacheSet, LRUTracker) and the eviction policies (LRU list, FIFO,        *)
(* Random, PseudoLRU), as state machines.                                  *)
(*                                                                         *)
(*   Spec       the cache: construction, access(address, type), reset()    *)
(*   SpecCtor   the constructor's parameter validation and geometry        *)
(*   SpecPolicy the eviction policies driven by way traces                 *)
(*   SpecCycle  the cache under the cyclic access loops of its tests       *)
(*   SpecDirect DirectMappedCache beside a 1-way SetAssociativeCache       *)
(*   SpecTrace  the policy test program: trace reader and policy loop      *)
(*   SpecSeed   two Random policies built with the same arguments          *)
(*   SpecTree   PseudoLRU for 4, 8 and 16 ways                             *)
(***************************************************************************)
EXTENDS Integers, Sequences, FiniteSets, TLC

VARIABLES
    cfg,        \* SetAssociativeCache geometry fields (set by the constructor)
    sets,       \* SetAssociativeCache::sets, index -> CacheSet
    stats,      \* SetAssociativeCache::stats
    result,     \* the AccessResult returned by the last access()
    last,       \* the last call made on the cache: [op, addr, type]
    nacc,       \* history: accesses since construction or the last reset()
    ref,        \* history: reference exact-LRU model, per set the tags MRU first
    refOut,     \* history: the reference model's output for the last access
    resident,   \* history: blocks accessed and not reported evicted since
    written,    \* history: resident blocks written since they were installed
    cycle,      \* the access loop under test: the blocks it cycles over, its type
    dm,         \* DirectMappedCache object run beside the cache
    dmOut,      \* the AccessResult returned by the last DirectMappedCache::access
    ctorIn,     \* constructor arguments under test
    ctorOut,    \* what the constructor produced for ctorIn
    dec,        \* the last two address decodings made with ctorOut, newest first
    wide,       \* a second SetAssociativeCache with twice the ways, fed the same trace
    num_ways,   \* EvictionPolicy::num_ways of the policies under test
    active,     \* the policy variants that receive the calls
    ctr,        \* LRUTracker (CounterLRU) state
    lst,        \* class LRU (ListLRU) state
    fifo,       \* class FIFO state
    rnd,        \* class Random state
    plru,       \* class PseudoLRU state
    pop,        \* the last call made on the policies: [op, way]
    victim,     \* per variant, what its last get_victim() returned
    rounds,     \* history: victims of the consecutive evict-and-fill rounds
    touched,    \* history: ways accessed since construction or the last reset()
    twin,       \* a second Random policy built with the same arguments
    stray       \* history: out-of-bounds vector elements the last access() used

cacheVars == <<cfg, sets, stats, result, last, nacc, ref, refOut, resident, written,
               cycle>>
dmVars == <<dm, dmOut>>
ctorVars == <<ctorIn, ctorOut, dec, wide>>
polVars == <<num_ways, active, ctr, lst, fifo, rnd, plru, pop, victim, rounds, touched,
             twin, stray>>
vars == <<cfg, sets, stats, result, last, nacc, ref, refOut, resident, written,
          cycle, dm, dmOut,
          ctorIn, ctorOut, dec, wide,
          num_ways, active, ctr, lst, fifo, rnd, plru, pop, victim, rounds, touched,
          twin, stray>>

(***************************************************************************)
(* Bounds of the model.                                                    *)
(***************************************************************************)
MaxSize == 4
MaxBlock == 2
MaxAssoc == 2
MaxAddr == 3
MaxAccesses == 4
MaxCtorArg == 9
MaxWays == 4
MaxPolicyOps == 7
MaxTraceLen == 3
MaxCycleSize == 8
MaxCycleAssoc == 4
MaxRounds == 2
MaxKb == 1
MaxDmLines == 2
MaxDmTag == 1
MaxDmAccesses == 3
MaxTreeArg == 32
MaxDecodeSize == 8
MaxDecodeAddr == 15
MaxWidenWays == 2
MaxWidenAddr == 4
MaxWidenAccesses == 8
MaxTrackerWays == 3
MaxTrackerOps == 5

(***************************************************************************)
(* Program constants.                                                      *)
(***************************************************************************)
DefaultAddrBits == 32

NoWay == -1

\* read_trace admits the way numbers 0..15; main builds 4-way policies.
MaxTraceWay == 15

TestWays == 4

\* DirectMappedCache: bytes per KB of size_kb, default hit and miss latencies.
BytesPerKb == 1024

DefaultCacheLatency == 1

DefaultMemoryLatency == 100

Pow2(n) == 2 ^ n

Min(S) == CHOOSE x \in S : \A y \in S : x <= y

(***************************************************************************)
(* Unsigned 64-bit machine arithmetic: a & b, a | b, a >> n, a << n.  The  *)
(* model's values stay far below 2^31, so no shift wraps; the one          *)
(* subtraction that can wrap (tag_bits) is SizeTDiff.                      *)
(***************************************************************************)
RECURSIVE BitAnd(_, _)
BitAnd(a, b) ==
    IF a = 0 \/ b = 0 THEN 0
    ELSE (IF a % 2 = 1 /\ b % 2 = 1 THEN 1 ELSE 0) + 2 * BitAnd(a \div 2, b \div 2)

RECURSIVE BitOr(_, _)
BitOr(a, b) ==
    IF a = 0 THEN b
    ELSE IF b = 0 THEN a
    ELSE (IF a % 2 = 1 \/ b % 2 = 1 THEN 1 ELSE 0) + 2 * BitOr(a \div 2, b \div 2)

ShiftRight(a, n) == a \div Pow2(n)

ShiftLeft(a, n) == a * Pow2(n)

\* a - b on size_t: when b > a the result wraps to 2^64 - (b - a), which is
\* recorded as wrapped with value b - a.
SizeTDiff(a, b) ==
    IF a >= b THEN [wrapped |-> FALSE, value |-> a - b]
              ELSE [wrapped |-> TRUE, value |-> b - a]

(***************************************************************************)
(* LRUTracker (lru_tracker.h)                                              *)
(***************************************************************************)
LRUTracker(ways) ==
    [num_ways |-> ways,
     access_counter |-> ways,
     last_access |-> [i \in 0..(ways - 1) |-> i]]

\* A bug that stamps the way but does not advance the clock.
LRUTracker_access_NoTick(t, way) ==
    IF way < t.num_ways
    THEN [t EXCEPT !.last_access[way] = t.access_counter]
    ELSE t

\* A bug that advances the clock before stamping (++clock for clock++).
LRUTracker_access_StampNext(t, way) ==
    IF way < t.num_ways
    THEN [t EXCEPT !.last_access[way] = t.access_counter + 1,
                   !.access_counter = t.access_counter + 1]
    ELSE t

LRUTracker_access(t, way) ==
    IF way < t.num_ways
    THEN [t EXCEPT !.last_access[way] = t.access_counter,
                   !.access_counter = t.access_counter + 1]
    ELSE t

\* A bug that looks for the newest stamp instead of the oldest.
RECURSIVE LRUTracker_scan_Newest(_, _, _, _)
LRUTracker_scan_Newest(t, i, victim_, min_time) ==
    IF i >= t.num_ways THEN victim_
    ELSE IF t.last_access[i] > min_time
         THEN LRUTracker_scan_Newest(t, i + 1, i, t.last_access[i])
         ELSE LRUTracker_scan_Newest(t, i + 1, victim_, min_time)

RECURSIVE LRUTracker_scan(_, _, _, _)
LRUTracker_scan(t, i, victim_, min_time) ==
    IF i >= t.num_ways THEN victim_
    ELSE IF t.last_access[i] < min_time
         THEN LRUTracker_scan(t, i + 1, i, t.last_access[i])
         ELSE LRUTracker_scan(t, i + 1, victim_, min_time)

LRUTracker_get_victim(t) == LRUTracker_scan(t, 1, 0, t.last_access[0])

\* A bug that zeroes the stamps and the clock.
LRUTracker_reset_Zeroed(t) ==
    [t EXCEPT !.access_counter = 0,
              !.last_access = [i \in 0..(t.num_ways - 1) |-> 0]]

LRUTracker_reset(t) ==
    [t EXCEPT !.access_counter = t.num_ways,
              !.last_access = [i \in 0..(t.num_ways - 1) |-> i]]

(***************************************************************************)
(* CacheLine, CacheSet (cache_set.h)                                       *)
(***************************************************************************)
CacheLine == [valid |-> FALSE, dirty |-> FALSE, tag |-> 0]

CacheSet(ways) ==
    [num_ways |-> ways,
     lru |-> LRUTracker(ways),
     lines |-> [i \in 0..(ways - 1) |-> CacheLine]]

\* A bug that matches the tag of a line without looking at its valid bit.
find_line_IgnoringValid(set, tag) ==
    LET match == {i \in 0..(set.num_ways - 1) : set.lines[i].tag = tag}
    IN  IF match = {} THEN NoWay ELSE Min(match)

\* A bug that compares the tag with way 0 only.
find_line_FirstWayOnly(set, tag) ==
    IF set.lines[0].valid /\ set.lines[0].tag = tag THEN 0 ELSE NoWay

find_line(set, tag) ==
    LET match == {i \in 0..(set.num_ways - 1) :
                    set.lines[i].valid /\ set.lines[i].tag = tag}
    IN  IF match = {} THEN NoWay ELSE Min(match)

\* A bug that scans for an invalid way from the highest index down.
find_victim_HighestInvalid(set) ==
    LET empty == {i \in 0..(set.num_ways - 1) : ~set.lines[i].valid}
    IN  IF empty # {} THEN CHOOSE i \in empty : \A j \in empty : j <= i
        ELSE LRUTracker_get_victim(set.lru)

find_victim(set) ==
    LET empty == {i \in 0..(set.num_ways - 1) : ~set.lines[i].valid}
    IN  IF empty # {} THEN Min(empty) ELSE LRUTracker_get_victim(set.lru)

\* A bug that notifies the replacement policy twice.
update_lru_Twice(set, way) ==
    IF way >= 0 /\ way < set.num_ways
    THEN [set EXCEPT !.lru = LRUTracker_access(LRUTracker_access(set.lru, way), way)]
    ELSE set

update_lru(set, way) ==
    IF way >= 0 /\ way < set.num_ways
    THEN [set EXCEPT !.lru = LRUTracker_access(set.lru, way)]
    ELSE set

(***************************************************************************)
(* class LRU (eviction_policies.cpp): a doubly linked list of heap Nodes   *)
(* between a dummy head and a dummy tail.  The heap is a function from     *)
(* node addresses to Nodes; the Node of way w is allocated at WayNode(w).  *)
(***************************************************************************)
Null == <<"nullptr">>

HeadAddr == <<"head">>

TailAddr == <<"tail">>

WayNode(way) == <<"node", way>>

Node(w) == [way |-> w, next |-> Null, prev |-> Null]

LRU(ways) ==
    [num_ways |-> ways,
     head |-> HeadAddr,
     tail |-> TailAddr,
     heap |-> [a \in {HeadAddr, TailAddr} |->
                  IF a = HeadAddr THEN [Node(-1) EXCEPT !.next = TailAddr]
                                  ELSE [Node(-1) EXCEPT !.prev = HeadAddr]],
     way_nodes |-> [i \in 0..(ways - 1) |-> Null]]

LRU_remove_node(L, node) ==
    LET h1 == [L.heap EXCEPT ![L.heap[node].prev].next = L.heap[node].next]
        h2 == [h1 EXCEPT ![h1[node].next].prev = h1[node].prev]
    IN  [L EXCEPT !.heap = h2]

LRU_add_to_front(L, node) ==
    LET h1 == [L.heap EXCEPT ![node].next = L.heap[L.head].next]
        h2 == [h1 EXCEPT ![node].prev = L.head]
        h3 == [h2 EXCEPT ![h2[L.head].next].prev = node]
        h4 == [h3 EXCEPT ![L.head].next = node]
    IN  [L EXCEPT !.heap = h4]

\* A bug that leaves a way already in the list where it is.
LRU_access_NoMove(L, way) ==
    IF L.way_nodes[way] = Null
    THEN LET new_node == WayNode(way)
             grown == [a \in DOMAIN L.heap \cup {new_node} |->
                          IF a \in DOMAIN L.heap THEN L.heap[a] ELSE Node(way)]
         IN  LRU_add_to_front([L EXCEPT !.heap = grown,
                                        !.way_nodes[way] = new_node], new_node)
    ELSE L

LRU_access(L, way) ==
    IF L.way_nodes[way] = Null
    THEN LET new_node == WayNode(way)
             grown == [a \in DOMAIN L.heap \cup {new_node} |->
                          IF a \in DOMAIN L.heap THEN L.heap[a] ELSE Node(way)]
         IN  LRU_add_to_front([L EXCEPT !.heap = grown,
                                        !.way_nodes[way] = new_node], new_node)
    ELSE LRU_add_to_front(LRU_remove_node(L, L.way_nodes[way]), L.way_nodes[way])

\* A bug that returns the entry next to the head, the most recently used.
LRU_get_victim_Front(L) == L.heap[L.heap[L.head].next].way

LRU_get_victim(L) == L.heap[L.heap[L.tail].prev].way

\* The nodes reset() deletes: from head->next along next up to the tail.
RECURSIVE LRU_walk(_, _)
LRU_walk(L, current) ==
    IF current = L.tail THEN {}
    ELSE {current} \cup LRU_walk(L, L.heap[current].next)

LRU_reset(L) ==
    LET deleted == LRU_walk(L, L.heap[L.head].next)
        kept == [a \in DOMAIN L.heap \ deleted |-> L.heap[a]]
        h1 == [kept EXCEPT ![L.head].next = L.tail]
        h2 == [h1 EXCEPT ![L.tail].prev = L.head]
    IN  [L EXCEPT !.heap = h2,
                  !.way_nodes = [i \in 0..(L.num_ways - 1) |-> Null]]

(***************************************************************************)
(* class FIFO (eviction_policies.cpp)                                      *)
(***************************************************************************)
FIFO(ways) ==
    [num_ways |-> ways,
     insertion_time |-> 1,
     insertion_order |-> [i \in 0..(ways - 1) |-> 0]]

\* A bug that stamps the way on every access, resident or not.
FIFO_access_Restamp(F, way) ==
    [F EXCEPT !.insertion_order[way] = F.insertion_time,
              !.insertion_time = F.insertion_time + 1]

FIFO_access(F, way) ==
    IF F.insertion_order[way] # 0
    THEN F
    ELSE [F EXCEPT !.insertion_order[way] = F.insertion_time,
                   !.insertion_time = F.insertion_time + 1]

RECURSIVE FIFO_scan(_, _, _)
FIFO_scan(F, i, victim_) ==
    IF i >= F.num_ways THEN victim_
    ELSE IF F.insertion_order[i] < F.insertion_order[victim_]
         THEN FIFO_scan(F, i + 1, i)
         ELSE FIFO_scan(F, i + 1, victim_)

FIFO_get_victim(F) == FIFO_scan(F, 1, 0)

FIFO_reset(F) ==
    [F EXCEPT !.insertion_order = [i \in 0..(F.num_ways - 1) |-> 0],
              !.insertion_time = 1]

(***************************************************************************)
(* class Random (eviction_policies.cpp).  The generator is seeded from     *)
(* std::random_device, so each draw is any way of [0, num_ways - 1]; the   *)
(* state kept is the number of draws taken from the generator.             *)
(***************************************************************************)
Random(ways) == [num_ways |-> ways, draws |-> 0]

Random_access(R, way) == R

Random_draws(R) == 0..(R.num_ways - 1)

Random_get_victim(R) == [R EXCEPT !.draws = R.draws + 1]

Random_reset(R) == R

(***************************************************************************)
(* class PseudoLRU (eviction_policies.cpp)                                 *)
(***************************************************************************)
RECURSIVE PseudoLRU_depth(_)
PseudoLRU_depth(temp) == IF temp > 1 THEN 1 + PseudoLRU_depth(temp \div 2) ELSE 0

NotBuilt == [built |-> FALSE]

\* A bug whose assertion lets a 2-way tree through.
PseudoLRU_AlsoTwoWays(ways) ==
    IF ~(ways = 2 \/ ways = 4 \/ ways = 8 \/ ways = 16) THEN NotBuilt
    ELSE [built |-> TRUE,
          num_ways |-> ways,
          num_bits |-> ways - 1,
          bits |-> [i \in 0..(ways - 2) |-> 0],
          max_depth |-> PseudoLRU_depth(ways)]

\* The constructor: the assertion stops the program for any other way count.
PseudoLRU(ways) ==
    IF ~(ways = 4 \/ ways = 8 \/ ways = 16) THEN NotBuilt
    ELSE [built |-> TRUE,
          num_ways |-> ways,
          num_bits |-> ways - 1,
          bits |-> [i \in 0..(ways - 2) |-> 0],
          max_depth |-> PseudoLRU_depth(ways)]

\* A bug that records the side the access took, so the bits lead to the way.
RECURSIVE PseudoLRU_mark_PointAt(_, _, _, _, _)
PseudoLRU_mark_PointAt(P, bits, level, bit_idx, pos) ==
    IF ~(level < P.max_depth) THEN bits
    ELSE LET subtree_size == ShiftLeft(1, P.max_depth - level - 1)
             is_right == pos >= subtree_size
             bits1 == [bits EXCEPT ![bit_idx] = IF is_right THEN 1 ELSE 0]
             pos1 == IF is_right THEN pos - subtree_size ELSE pos
             next_idx == 2 * bit_idx + (IF is_right THEN 2 ELSE 1)
         IN  IF next_idx >= P.num_bits THEN bits1
             ELSE PseudoLRU_mark_PointAt(P, bits1, level + 1, next_idx, pos1)

\* A bug that stops the walk after the root.
PseudoLRU_mark_RootOnly(P, bits, level, bit_idx, pos) ==
    IF ~(level < P.max_depth) THEN bits
    ELSE LET subtree_size == ShiftLeft(1, P.max_depth - level - 1)
             is_right == pos >= subtree_size
         IN  [bits EXCEPT ![bit_idx] = IF is_right THEN 0 ELSE 1]

RECURSIVE PseudoLRU_mark(_, _, _, _, _)
PseudoLRU_mark(P, bits, level, bit_idx, pos) ==
    IF ~(level < P.max_depth) THEN bits
    ELSE LET subtree_size == ShiftLeft(1, P.max_depth - level - 1)
             is_right == pos >= subtree_size
             bits1 == [bits EXCEPT ![bit_idx] = IF is_right THEN 0 ELSE 1]
             pos1 == IF is_right THEN pos - subtree_size ELSE pos
             next_idx == 2 * bit_idx + (IF is_right THEN 2 ELSE 1)
         IN  IF next_idx >= P.num_bits THEN bits1
             ELSE PseudoLRU_mark(P, bits1, level + 1, next_idx, pos1)

PseudoLRU_access(P, way) ==
    [P EXCEPT !.bits = PseudoLRU_mark(P, P.bits, 0, 0, way)]

RECURSIVE PseudoLRU_descend(_, _, _, _)
PseudoLRU_descend(P, level, bit_idx, victim_) ==
    IF ~(level < P.max_depth) THEN victim_
    ELSE LET go_right == P.bits[bit_idx] # 0
             subtree_size == ShiftLeft(1, P.max_depth - level - 1)
             victim1 == IF go_right THEN victim_ + subtree_size ELSE victim_
             next_idx == 2 * bit_idx + (IF go_right THEN 2 ELSE 1)
         IN  IF next_idx >= P.num_bits THEN victim1
             ELSE PseudoLRU_descend(P, level + 1, next_idx, victim1)

\* A bug that follows the root bit and then always goes left.
PseudoLRU_get_victim_RootBitOnly(P) ==
    IF P.bits[0] # 0 THEN ShiftLeft(1, P.max_depth - 1) ELSE 0

PseudoLRU_get_victim(P) == PseudoLRU_descend(P, 0, 0, 0)

PseudoLRU_reset(P) == [P EXCEPT !.bits = [i \in 0..(P.num_bits - 1) |-> 0]]

(***************************************************************************)
(* SetAssociativeCache: helpers and constructor                            *)
(* (set_associative_cache.cpp)                                             *)
(***************************************************************************)
RECURSIVE log2(_)
log2(n) == IF n > 1 THEN 1 + log2(ShiftRight(n, 1)) ELSE 0

get_offset(c, address) ==
    BitAnd(address, ShiftLeft(1, c.offset_bits) - 1)

get_set_index(c, address) ==
    BitAnd(ShiftRight(address, c.offset_bits), ShiftLeft(1, c.index_bits) - 1)

\* A bug that shifts the offset bits only.
get_tag_OffsetOnly(c, address) == ShiftRight(address, c.offset_bits)

get_tag(c, address) == ShiftRight(address, c.offset_bits + c.index_bits)

reconstruct_address(c, tag, set_index) ==
    BitOr(ShiftLeft(tag, c.offset_bits + c.index_bits), ShiftLeft(set_index, c.offset_bits))

\* The constructor's five parameter assertions, in order (lines 63-67).
ParamAsserts(size, block, assoc) ==
    /\ size > 0
    /\ block > 0
    /\ assoc > 0
    /\ BitAnd(block, block - 1) = 0
    /\ BitAnd(assoc, assoc - 1) = 0

\* A bug that checks the set count only for being positive.
SetAsserts_PositiveOnly(sets_) == sets_ > 0

\* The two assertions on the derived set count (lines 73-74).
SetAsserts(sets_) ==
    /\ sets_ > 0
    /\ BitAnd(sets_, sets_ - 1) = 0

Aborted == [ok |-> FALSE]

\* SetAssociativeCache::SetAssociativeCache: the geometry it leaves in the
\* object, or Aborted when an assertion stops the program.
Construct(size, block, assoc, addr_bits) ==
    IF ~ParamAsserts(size, block, assoc) THEN Aborted
    ELSE LET lines_ == size \div block
             sets_ == lines_ \div assoc
         IN  IF ~SetAsserts(sets_) THEN Aborted
             ELSE [ok |-> TRUE,
                   cache_size |-> size,
                   block_size |-> block,
                   associativity |-> assoc,
                   num_lines |-> lines_,
                   num_sets |-> sets_,
                   offset_bits |-> log2(block),
                   index_bits |-> log2(sets_),
                   tag_bits |-> SizeTDiff(addr_bits, log2(block) + log2(sets_))]

\* The sets vector the constructor and reset() build: num_sets CacheSets.
BuildSets(c) == [i \in 0..(c.num_sets - 1) |-> CacheSet(c.associativity)]

CacheStats ==
    [hits |-> 0, misses |-> 0, reads |-> 0, writes |-> 0,
     evictions |-> 0, dirty_evictions |-> 0]

AccessResult ==
    [hit |-> FALSE, evicted |-> FALSE, evicted_dirty |-> FALSE,
     evicted_tag |-> 0, set_index |-> 0, way |-> NoWay]

(***************************************************************************)
(* SetAssociativeCache::access, as the function from the object's state    *)
(* and the arguments to the new state and the returned AccessResult.       *)
(***************************************************************************)
\* A bug that counts every access as a read.
CountType_AllReads(st, type) == [st EXCEPT !.reads = st.reads + 1]

CountType(st, type) ==
    IF type = "READ" THEN [st EXCEPT !.reads = st.reads + 1]
                     ELSE [st EXCEPT !.writes = st.writes + 1]

\* A bug that sets the dirty bit of a hit line from the access type, so a
\* read hit cleans the line.
AccessHit_DirtyByType(S, st, set_index, way, type) ==
    LET set == S[set_index]
        used == update_lru(set, way)
        marked == [used EXCEPT !.lines[way].dirty = (type = "WRITE")]
    IN  [sets |-> [S EXCEPT ![set_index] = marked],
         stats |-> [st EXCEPT !.hits = st.hits + 1],
         result |-> [AccessResult EXCEPT !.set_index = set_index,
                                         !.hit = TRUE,
                                         !.way = way]]

\* A bug that stamps the hit way in the LRU state of every set.
AccessHit_StampEverySet(S, st, set_index, way, type) ==
    LET marked == IF type = "WRITE"
                  THEN [S EXCEPT ![set_index].lines[way].dirty = TRUE]
                  ELSE S
    IN  [sets |-> [i \in DOMAIN S |-> update_lru(marked[i], way)],
         stats |-> [st EXCEPT !.hits = st.hits + 1],
         result |-> [AccessResult EXCEPT !.set_index = set_index,
                                         !.hit = TRUE,
                                         !.way = way]]

\* A bug that does not tell the replacement policy about a hit.
AccessHit_NoNotify(S, st, set_index, way, type) ==
    LET set == S[set_index]
        marked == IF type = "WRITE"
                   THEN [set EXCEPT !.lines[way].dirty = TRUE]
                   ELSE set
    IN  [sets |-> [S EXCEPT ![set_index] = marked],
         stats |-> [st EXCEPT !.hits = st.hits + 1],
         result |-> [AccessResult EXCEPT !.set_index = set_index,
                                         !.hit = TRUE,
                                         !.way = way]]

AccessHit(S, st, set_index, way, type) ==
    LET set == S[set_index]
        used == update_lru(set, way)
        marked == IF type = "WRITE"
                   THEN [used EXCEPT !.lines[way].dirty = TRUE]
                   ELSE used
    IN  [sets |-> [S EXCEPT ![set_index] = marked],
         stats |-> [st EXCEPT !.hits = st.hits + 1],
         result |-> [AccessResult EXCEPT !.set_index = set_index,
                                         !.hit = TRUE,
                                         !.way = way]]

\* A bug that flags an eviction by the victim's dirty bit instead of its valid bit.
MissResult_FlagByDirty(r0, victim_) ==
    IF victim_.dirty
    THEN [r0 EXCEPT !.evicted = TRUE, !.evicted_tag = victim_.tag,
                    !.evicted_dirty = TRUE]
    ELSE r0

\* A bug that reports an eviction without the evicted line's tag.
MissResult_NoTag(r0, victim_) ==
    LET r1 == IF victim_.valid THEN [r0 EXCEPT !.evicted = TRUE] ELSE r0
    IN  IF victim_.valid /\ victim_.dirty
        THEN [r1 EXCEPT !.evicted_dirty = TRUE]
        ELSE r1

\* Lines 150-162, the AccessResult part: evicted, evicted_tag, evicted_dirty.
MissResult(r0, victim_) ==
    LET r1 == IF victim_.valid
              THEN [r0 EXCEPT !.evicted = TRUE, !.evicted_tag = victim_.tag]
              ELSE r0
    IN  IF victim_.valid /\ victim_.dirty
        THEN [r1 EXCEPT !.evicted_dirty = TRUE]
        ELSE r1

\* A bug that counts every eviction as a dirty eviction.
MissStats_AllDirty(st, victim_) ==
    LET st1 == [st EXCEPT !.misses = st.misses + 1]
    IN  IF victim_.valid
        THEN [st1 EXCEPT !.evictions = st1.evictions + 1,
                         !.dirty_evictions = st1.dirty_evictions + 1]
        ELSE st1

\* A bug that counts an eviction on every miss, empty way or not.
MissStats_CountFill(st, victim_) ==
    LET st1 == [st EXCEPT !.misses = st.misses + 1,
                          !.evictions = st.evictions + 1]
    IN  IF victim_.valid /\ victim_.dirty
        THEN [st1 EXCEPT !.dirty_evictions = st1.dirty_evictions + 1]
        ELSE st1

\* Lines 141 and 150-162, the statistics part: misses, evictions, dirty_evictions.
MissStats(st, victim_) ==
    LET st1 == [st EXCEPT !.misses = st.misses + 1]
        st2 == IF victim_.valid
               THEN [st1 EXCEPT !.evictions = st1.evictions + 1]
               ELSE st1
    IN  IF victim_.valid /\ victim_.dirty
        THEN [st2 EXCEPT !.dirty_evictions = st2.dirty_evictions + 1]
        ELSE st2

AccessMiss(S, st, set_index, tag, type) ==
    LET set == S[set_index]
        way == find_victim(set)
        victim_ == set.lines[way]
        r0 == [AccessResult EXCEPT !.set_index = set_index, !.way = way]
        loaded == [set EXCEPT !.lines[way] =
                      [valid |-> TRUE, tag |-> tag, dirty |-> (type = "WRITE")]]
    IN  [sets |-> [S EXCEPT ![set_index] = update_lru(loaded, way)],
         stats |-> MissStats(st, victim_),
         result |-> MissResult(r0, victim_)]

access(c, S, st, address, type) ==
    LET st0 == CountType(st, type)
        set_index == get_set_index(c, address)
        tag == get_tag(c, address)
        way == find_line(S[set_index], tag)
    IN  IF way >= 0
        THEN AccessHit(S, st0, set_index, way, type)
        ELSE AccessMiss(S, st0, set_index, tag, type)


(***************************************************************************)
(* DirectMappedCache (direct_mapped_cache.cpp, cache_line.h,               *)
(* statistics.cpp).  A line's data bytes are never read or written by      *)
(* access() and are left out.                                              *)
(***************************************************************************)
DmCacheLine == [valid |-> FALSE, dirty |-> FALSE, tag |-> 0, last_access_cycle |-> 0]

CacheLine_reset(line) ==
    [line EXCEPT !.valid = FALSE, !.dirty = FALSE, !.tag = 0, !.last_access_cycle = 0]

CacheLine_matches(line, query_tag) == line.valid /\ line.tag = query_tag

Statistics == [total_accesses |-> 0, total_hits |-> 0, total_latency |-> 0]

record_access(st, hit, latency) ==
    [st EXCEPT !.total_accesses = st.total_accesses + 1,
               !.total_hits = st.total_hits + (IF hit THEN 1 ELSE 0),
               !.total_latency = st.total_latency + latency]

DmAccessResult(hit, latency) == [hit |-> hit, latency |-> latency]

RECURSIVE DirectMappedCache_log2(_)
DirectMappedCache_log2(n) ==
    IF n > 1 THEN 1 + DirectMappedCache_log2(ShiftRight(n, 1)) ELSE 0

\* The constructor; its assertions stop the program on a block size that is
\* zero or not a power of two and on a cache without lines.
DirectMappedCache(size_kb, block_size) ==
    IF block_size = 0 THEN NotBuilt
    ELSE LET lines_ == (size_kb * BytesPerKb) \div block_size
         IN  IF ~(block_size > 0 /\ BitAnd(block_size, block_size - 1) = 0 /\ lines_ > 0)
             THEN NotBuilt
             ELSE [built |-> TRUE,
                   config |-> [size_kb |-> size_kb, block_size |-> block_size],
                   cache_latency |-> DefaultCacheLatency,
                   memory_latency |-> DefaultMemoryLatency,
                   current_cycle |-> 0,
                   num_lines |-> lines_,
                   offset_bits |-> DirectMappedCache_log2(block_size),
                   index_bits |-> DirectMappedCache_log2(lines_),
                   lines |-> [i \in 0..(lines_ - 1) |-> DmCacheLine],
                   stats |-> Statistics]

extract_tag(d, addr) == ShiftRight(addr, d.index_bits + d.offset_bits)

\* A bug that masks the address without shifting the offset bits out.
extract_index_NoShift(d, addr) == BitAnd(addr, d.num_lines - 1)

extract_index(d, addr) == BitAnd(ShiftRight(addr, d.offset_bits), d.num_lines - 1)

extract_offset(d, addr) == BitAnd(addr, d.config.block_size - 1)

evict(d, index) ==
    IF ~d.lines[index].valid THEN d
    ELSE LET d1 == IF d.lines[index].dirty
                   THEN [d EXCEPT !.current_cycle = d.current_cycle + d.memory_latency]
                   ELSE d
         IN  [d1 EXCEPT !.lines[index] = CacheLine_reset(d1.lines[index])]

\* DirectMappedCache::access: the object it leaves and the result it returns.
DirectMappedCache_access(d, addr, type) ==
    LET index == extract_index(d, addr)
        tag == extract_tag(d, addr)
        is_hit == CacheLine_matches(d.lines[index], tag)
    IN  IF is_hit
        THEN LET d1 == [d EXCEPT !.lines[index].last_access_cycle = d.current_cycle]
                 d2 == IF type = "WRITE" THEN [d1 EXCEPT !.lines[index].dirty = TRUE]
                                         ELSE d1
                 d3 == [d2 EXCEPT !.stats = record_access(d2.stats, TRUE, d.cache_latency)]
             IN  [dm |-> [d3 EXCEPT !.current_cycle = d3.current_cycle + d.cache_latency],
                  result |-> DmAccessResult(TRUE, d.cache_latency)]
        ELSE LET d1 == IF d.lines[index].valid THEN evict(d, index) ELSE d
                 d2 == [d1 EXCEPT !.lines[index] =
                           [valid |-> TRUE, dirty |-> (type = "WRITE"), tag |-> tag,
                            last_access_cycle |-> d1.current_cycle]]
                 d3 == [d2 EXCEPT !.stats = record_access(d2.stats, FALSE, d.memory_latency)]
             IN  [dm |-> [d3 EXCEPT !.current_cycle = d3.current_cycle + d.memory_latency],
                  result |-> DmAccessResult(FALSE, d.memory_latency)]

(***************************************************************************)
(* History kept beside the cache: a reference exact-LRU model (per set,    *)
(* the resident tags, most recently used first) and the set of blocks      *)
(* accessed and not reported evicted since.                                *)
(***************************************************************************)
SeqWithout(q, x) == SelectSeq(q, LAMBDA y : y # x)

InSeq(q, x) == \E k \in 1..Len(q) : q[k] = x

RefAccess(q, tag, ways) ==
    IF InSeq(q, tag)
    THEN [list |-> <<tag>> \o SeqWithout(q, tag),
          hit |-> TRUE, evicted |-> FALSE, evicted_tag |-> 0]
    ELSE IF Len(q) = ways
         THEN [list |-> <<tag>> \o SubSeq(q, 1, ways - 1),
               hit |-> FALSE, evicted |-> TRUE, evicted_tag |-> q[ways]]
         ELSE [list |-> <<tag>> \o q,
               hit |-> FALSE, evicted |-> FALSE, evicted_tag |-> 0]

RefIdle == [hit |-> FALSE, evicted |-> FALSE, evicted_tag |-> 0]

BlockOf(c, address) == address \div c.block_size

BlockAt(c, tag, set_index) == tag * c.num_sets + set_index

\* The block an AccessResult reports evicted, if any.
Gone(c, r) == IF r.evicted THEN {BlockAt(c, r.evicted_tag, r.set_index)} ELSE {}

(***************************************************************************)
(* The cache as a state machine.                                           *)
(***************************************************************************)
AccessTypes == {"READ", "WRITE"}

NoCall == [op |-> "new", addr |-> 0, type |-> "READ"]

NoCycle == [blocks |-> <<>>, type |-> "READ"]

CacheIdle ==
    /\ cfg = Aborted
    /\ sets = <<>>
    /\ stats = CacheStats
    /\ result = AccessResult
    /\ last = NoCall
    /\ nacc = 0
    /\ ref = <<>>
    /\ refOut = RefIdle
    /\ resident = {}
    /\ written = {}
    /\ cycle = NoCycle

DmIdle ==
    /\ dm = NotBuilt
    /\ dmOut = DmAccessResult(FALSE, 0)

CtorIdle ==
    /\ ctorIn = <<>>
    /\ ctorOut = Aborted
    /\ dec = <<>>
    /\ wide = NotBuilt

NoPolicyCall == [op |-> "new", way |-> 0, n |-> 0]

PolIdle ==
    /\ num_ways = 0
    /\ active = {}
    /\ ctr = NotBuilt
    /\ lst = NotBuilt
    /\ fifo = NotBuilt
    /\ rnd = NotBuilt
    /\ plru = NotBuilt
    /\ pop = NoPolicyCall
    /\ victim = <<>>
    /\ rounds = <<>>
    /\ touched = {}
    /\ twin = NotBuilt
    /\ stray = {}

\* The state right after SetAssociativeCache(size, block, assoc) returned.
Init ==
    /\ \E size \in 1..MaxSize, block \in 1..MaxBlock, assoc \in 1..MaxAssoc :
          /\ Construct(size, block, assoc, DefaultAddrBits).ok
          /\ cfg = Construct(size, block, assoc, DefaultAddrBits)
    /\ sets = BuildSets(cfg)
    /\ stats = CacheStats
    /\ result = AccessResult
    /\ last = NoCall
    /\ nacc = 0
    /\ ref = [i \in 0..(cfg.num_sets - 1) |-> <<>>]
    /\ refOut = RefIdle
    /\ resident = {}
    /\ written = {}
    /\ cycle = NoCycle
    /\ DmIdle
    /\ CtorIdle
    /\ PolIdle

\* cache.access(address, type), with the history kept beside it.
Call_access(address, type) ==
    /\ LET out == access(cfg, sets, stats, address, type)
           idx == get_set_index(cfg, address)
           r == RefAccess(ref[idx], get_tag(cfg, address), cfg.associativity)
       IN  /\ sets' = out.sets
           /\ stats' = out.stats
           /\ result' = out.result
           /\ ref' = [ref EXCEPT ![idx] = r.list]
           /\ refOut' = [hit |-> r.hit, evicted |-> r.evicted,
                         evicted_tag |-> r.evicted_tag]
           /\ resident' = (resident \ Gone(cfg, out.result)) \cup {BlockOf(cfg, address)}
           /\ written' =
                 ((written \ Gone(cfg, out.result))
                     \ (IF out.result.hit THEN {} ELSE {BlockOf(cfg, address)}))
                 \cup (IF type = "WRITE" THEN {BlockOf(cfg, address)} ELSE {})
    /\ last' = [op |-> "access", addr |-> address, type |-> type]
    /\ nacc' = nacc + 1
    /\ UNCHANGED <<cfg, cycle>>

\* cache.access(address, type) on any address of the model's range
Access(address, type) ==
    /\ nacc < MaxAccesses
    /\ Call_access(address, type)

\* A bug that rebuilds the sets and keeps the statistics.
reset_KeepStats(c, S, st) == [sets |-> BuildSets(c), stats |-> st]

\* SetAssociativeCache::reset, as the function from the object to its new state.
reset(c, S, st) == [sets |-> BuildSets(c), stats |-> CacheStats]

\* cache.reset()
Reset ==
    /\ LET out == reset(cfg, sets, stats)
       IN  /\ sets' = out.sets
           /\ stats' = out.stats
    /\ last' = [op |-> "reset", addr |-> 0, type |-> "READ"]
    /\ nacc' = 0
    /\ ref' = [i \in 0..(cfg.num_sets - 1) |-> <<>>]
    /\ refOut' = RefIdle
    /\ resident' = {}
    /\ written' = {}
    /\ UNCHANGED <<cfg, result, cycle>>

Next ==
    \/ \E address \in 0..MaxAddr, type \in AccessTypes :
          Access(address, type) /\ UNCHANGED <<dmVars, ctorVars, polVars>>
    \/ Reset /\ UNCHANGED <<dmVars, ctorVars, polVars>>

Spec == Init /\ [][Next]_vars

(***************************************************************************)
(* The access loops of the associativity tests (specification SpecCycle):  *)
(* a cache of up to MaxCycleAssoc ways, and a loop that accesses k         *)
(* distinct blocks of one set in a fixed order, round after round, with    *)
(* one access type.                                                        *)
(***************************************************************************)
\* The block addresses of k distinct tags, in every order, that map to set s.
Cycles(c, k, s) ==
    {[i \in 1..k |-> reconstruct_address(c, tags[i], s)] :
        tags \in {t \in [1..k -> 0..c.associativity] :
                    \A i, j \in 1..k : i # j => t[i] # t[j]}}

CycleInit ==
    /\ \E size \in 1..MaxCycleSize, block \in 1..MaxBlock, assoc \in 1..MaxCycleAssoc :
          /\ Construct(size, block, assoc, DefaultAddrBits).ok
          /\ cfg = Construct(size, block, assoc, DefaultAddrBits)
    /\ \E k \in 1..(cfg.associativity + 1), s \in 0..(cfg.num_sets - 1),
          type \in AccessTypes :
          \E blocks \in Cycles(cfg, k, s) :
             cycle = [blocks |-> blocks, type |-> type]
    /\ sets = BuildSets(cfg)
    /\ stats = CacheStats
    /\ result = AccessResult
    /\ last = NoCall
    /\ nacc = 0
    /\ ref = [i \in 0..(cfg.num_sets - 1) |-> <<>>]
    /\ refOut = RefIdle
    /\ resident = {}
    /\ written = {}
    /\ DmIdle
    /\ CtorIdle
    /\ PolIdle

\* The next access of the loop: for (auto addr : trace) cache.access(addr, type)
CycleAccess ==
    /\ nacc < MaxRounds * Len(cycle.blocks)
    /\ Call_access(cycle.blocks[(nacc % Len(cycle.blocks)) + 1], cycle.type)

CycleNext == CycleAccess /\ UNCHANGED <<dmVars, ctorVars, polVars>>

SpecCycle == CycleInit /\ [][CycleNext]_vars

(***************************************************************************)
(* DirectMappedCache beside a 1-way SetAssociativeCache of the same size   *)
(* and block size, both given the same accesses (specification             *)
(* SpecDirect).                                                            *)
(***************************************************************************)
DirectInit ==
    /\ \E size_kb \in 1..MaxKb, block \in 1..(MaxKb * BytesPerKb) :
          /\ (size_kb * BytesPerKb) \div block <= MaxDmLines
          /\ Construct(size_kb * BytesPerKb, block, 1, DefaultAddrBits).ok
          /\ cfg = Construct(size_kb * BytesPerKb, block, 1, DefaultAddrBits)
          /\ dm = DirectMappedCache(size_kb, block)
    /\ dm.built
    /\ dmOut = DmAccessResult(FALSE, 0)
    /\ sets = BuildSets(cfg)
    /\ stats = CacheStats
    /\ result = AccessResult
    /\ last = NoCall
    /\ nacc = 0
    /\ ref = [i \in 0..(cfg.num_sets - 1) |-> <<>>]
    /\ refOut = RefIdle
    /\ resident = {}
    /\ written = {}
    /\ cycle = NoCycle
    /\ CtorIdle
    /\ PolIdle

\* The first and last byte of the blocks of tags 0..MaxDmTag in every line.
DirectAddresses ==
    {(tag * dm.num_lines + index) * dm.config.block_size + offset :
        tag \in 0..MaxDmTag, index \in 0..(dm.num_lines - 1),
        offset \in {0, dm.config.block_size - 1}}

\* direct.access(address, type) and cache.access(address, type)
DirectAccess(address, type) ==
    /\ nacc < MaxDmAccesses
    /\ Call_access(address, type)
    /\ LET out == DirectMappedCache_access(dm, address, type)
       IN  /\ dm' = out.dm
           /\ dmOut' = out.result

DirectNext ==
    \E address \in DirectAddresses, type \in AccessTypes :
        DirectAccess(address, type) /\ UNCHANGED <<ctorVars, polVars>>

SpecDirect == DirectInit /\ [][DirectNext]_vars

(***************************************************************************)
(* Two caches on one trace (specification SpecWiden), as                   *)
(* test_associativity_comparison runs them: READ accesses only, here with  *)
(* the same block size and set count and N against 2N ways.  Both caches   *)
(* have one set of one-byte blocks, so an address is a block and blocks    *)
(* differ only by name: the trace names its blocks 0, 1, 2, ... in the     *)
(* order of their first use.                                               *)
(***************************************************************************)
WidenInit ==
    /\ \E assoc \in 1..MaxWidenWays :
          /\ Construct(assoc, 1, assoc, DefaultAddrBits).ok
          /\ cfg = Construct(assoc, 1, assoc, DefaultAddrBits)
          /\ wide = [built |-> TRUE,
                     cfg |-> Construct(2 * assoc, 1, 2 * assoc, DefaultAddrBits),
                     sets |-> BuildSets(Construct(2 * assoc, 1, 2 * assoc, DefaultAddrBits)),
                     stats |-> CacheStats,
                     result |-> AccessResult,
                     used |-> 0]
    /\ sets = BuildSets(cfg)
    /\ stats = CacheStats
    /\ result = AccessResult
    /\ last = NoCall
    /\ nacc = 0
    /\ ref = [i \in 0..(cfg.num_sets - 1) |-> <<>>]
    /\ refOut = RefIdle
    /\ resident = {}
    /\ written = {}
    /\ cycle = NoCycle
    /\ ctorIn = <<>>
    /\ ctorOut = Aborted
    /\ dec = <<>>
    /\ DmIdle
    /\ PolIdle

\* narrow.access(address, READ) and wide.access(address, READ)
WidenAccess(address) ==
    /\ nacc < MaxWidenAccesses
    /\ address <= wide.used
    /\ Call_access(address, "READ")
    /\ LET out == access(wide.cfg, wide.sets, wide.stats, address, "READ")
       IN  wide' = [wide EXCEPT !.sets = out.sets,
                                !.stats = out.stats,
                                !.result = out.result,
                                !.used = IF address = wide.used THEN wide.used + 1
                                                                ELSE wide.used]
    /\ UNCHANGED <<ctorIn, ctorOut, dec>>

WidenNext ==
    \E address \in 0..MaxWidenAddr : WidenAccess(address) /\ UNCHANGED <<dmVars, polVars>>

SpecWiden == WidenInit /\ [][WidenNext]_vars

(***************************************************************************)
(* The constructor on its own (specification SpecCtor): arguments drawn    *)
(* from 0..MaxCtorArg, then SetAssociativeCache(size, block, assoc, bits). *)
(***************************************************************************)
AddrBitsChoices == {0, 1, 2, DefaultAddrBits}

CtorInit ==
    /\ \E size \in 0..MaxCtorArg, block \in 0..MaxCtorArg, assoc \in 0..MaxCtorArg,
          bits \in AddrBitsChoices :
          ctorIn = [size |-> size, block |-> block, assoc |-> assoc,
                    addr_bits |-> bits, called |-> FALSE]
    /\ ctorOut = Aborted
    /\ dec = <<>>
    /\ wide = NotBuilt
    /\ CacheIdle
    /\ DmIdle
    /\ PolIdle

CtorCall ==
    /\ ~ctorIn.called
    /\ ctorIn' = [ctorIn EXCEPT !.called = TRUE]
    /\ ctorOut' = Construct(ctorIn.size, ctorIn.block, ctorIn.assoc, ctorIn.addr_bits)
    /\ UNCHANGED <<cacheVars, dmVars, polVars, dec, wide>>

CtorNext == CtorCall

SpecCtor == CtorInit /\ [][CtorNext]_vars

(***************************************************************************)
(* The address helpers on their own (specification SpecDecode): a cache    *)
(* built with an accepted geometry of at most MaxDecodeSize bytes, then    *)
(* get_offset, get_set_index, get_tag and reconstruct_address applied to   *)
(* addresses of 0..MaxDecodeAddr, as access() and print_set_contents() do.*)
(***************************************************************************)
DecodeInit ==
    /\ \E size \in 1..MaxDecodeSize, block \in 1..MaxDecodeSize, assoc \in 1..MaxDecodeSize :
          /\ Construct(size, block, assoc, DefaultAddrBits) # Aborted
          /\ ctorIn = [size |-> size, block |-> block, assoc |-> assoc,
                       addr_bits |-> DefaultAddrBits, called |-> TRUE]
          /\ ctorOut = Construct(size, block, assoc, DefaultAddrBits)
    /\ dec = <<>>
    /\ wide = NotBuilt
    /\ CacheIdle
    /\ DmIdle
    /\ PolIdle

Decode(address) ==
    /\ LET tag == get_tag(ctorOut, address)
           set_index == get_set_index(ctorOut, address)
       IN  dec' = SubSeq(<<[address |-> address,
                            offset |-> get_offset(ctorOut, address),
                            set_index |-> set_index,
                            tag |-> tag,
                            rebuilt |-> reconstruct_address(ctorOut, tag, set_index)]>>
                         \o dec, 1, IF Len(dec) = 0 THEN 1 ELSE 2)
    /\ UNCHANGED <<cacheVars, dmVars, polVars, ctorIn, ctorOut, wide>>

DecodeNext == \E address \in 0..MaxDecodeAddr : Decode(address)

SpecDecode == DecodeInit /\ [][DecodeNext]_vars

(***************************************************************************)
(* The eviction policies on their own (specification SpecPolicy): the      *)
(* variants in `active` are built for num_ways ways and receive the same   *)
(* calls, as the policy test feeds one trace to every policy.  A policy    *)
(* standing alone can also serve a full set: evict its victim and install  *)
(* the new line in that way.                                               *)
(***************************************************************************)
Kinds == {"CounterLRU", "ListLRU", "FIFO", "Random", "PseudoLRU"}

Harnesses == {{"CounterLRU", "ListLRU"}} \cup {{k} : k \in Kinds}

Policy_new(k, ways) ==
    CASE k = "CounterLRU" -> LRUTracker(ways)
      [] k = "ListLRU" -> LRU(ways)
      [] k = "FIFO" -> FIFO(ways)
      [] k = "Random" -> Random(ways)
      [] k = "PseudoLRU" -> PseudoLRU(ways)

\* policy->access(way)
Policy_access(k, st, way) ==
    CASE k = "CounterLRU" -> LRUTracker_access(st, way)
      [] k = "ListLRU" -> LRU_access(st, way)
      [] k = "FIFO" -> FIFO_access(st, way)
      [] k = "Random" -> Random_access(st, way)
      [] k = "PseudoLRU" -> PseudoLRU_access(st, way)

\* policy->get_victim(): the value returned (draw is what Random's generator gives)
Policy_get_victim(k, st, draw) ==
    CASE k = "CounterLRU" -> LRUTracker_get_victim(st)
      [] k = "ListLRU" -> LRU_get_victim(st)
      [] k = "FIFO" -> FIFO_get_victim(st)
      [] k = "Random" -> draw
      [] k = "PseudoLRU" -> PseudoLRU_get_victim(st)

\* A bug in which LRUTracker::get_victim promotes the way it returns.
Policy_after_get_victim_Promote(k, st) ==
    CASE k = "Random" -> Random_get_victim(st)
      [] k = "CounterLRU" -> LRUTracker_access(st, LRUTracker_get_victim(st))
      [] OTHER -> st

\* policy->get_victim(): the state it leaves
Policy_after_get_victim(k, st) ==
    IF k = "Random" THEN Random_get_victim(st) ELSE st

\* policy->reset()
Policy_reset(k, st) ==
    CASE k = "CounterLRU" -> LRUTracker_reset(st)
      [] k = "ListLRU" -> LRU_reset(st)
      [] k = "FIFO" -> FIFO_reset(st)
      [] k = "Random" -> Random_reset(st)
      [] k = "PseudoLRU" -> PseudoLRU_reset(st)

StateOf(k) ==
    CASE k = "CounterLRU" -> ctr
      [] k = "ListLRU" -> lst
      [] k = "FIFO" -> fifo
      [] k = "Random" -> rnd
      [] k = "PseudoLRU" -> plru

AllWays == 0..(num_ways - 1)

Draws == IF "Random" \in active THEN Random_draws(rnd) ELSE {NoWay}

\* The generator's draw count is capped to keep the model finite.
MayDraw == ("Random" \in active) => rnd.draws < MaxPolicyOps

PolicyInit ==
    /\ num_ways \in 1..MaxWays
    /\ active \in Harnesses
    /\ ("PseudoLRU" \in active) => PseudoLRU(num_ways).built
    /\ ctr = IF "CounterLRU" \in active THEN Policy_new("CounterLRU", num_ways) ELSE NotBuilt
    /\ lst = IF "ListLRU" \in active THEN Policy_new("ListLRU", num_ways) ELSE NotBuilt
    /\ fifo = IF "FIFO" \in active THEN Policy_new("FIFO", num_ways) ELSE NotBuilt
    /\ rnd = IF "Random" \in active THEN Policy_new("Random", num_ways) ELSE NotBuilt
    /\ plru = IF "PseudoLRU" \in active THEN Policy_new("PseudoLRU", num_ways) ELSE NotBuilt
    /\ pop = NoPolicyCall
    /\ victim = [k \in active |-> NoWay]
    /\ rounds = <<>>
    /\ touched = {}
    /\ twin = NotBuilt
    /\ stray = {}
    /\ CacheIdle
    /\ DmIdle
    /\ CtorIdle

\* The policy variables after f(k, state) was applied to every active policy.
Apply(f(_, _)) ==
    /\ ctr' = IF "CounterLRU" \in active THEN f("CounterLRU", ctr) ELSE ctr
    /\ lst' = IF "ListLRU" \in active THEN f("ListLRU", lst) ELSE lst
    /\ fifo' = IF "FIFO" \in active THEN f("FIFO", fifo) ELSE fifo
    /\ rnd' = IF "Random" \in active THEN f("Random", rnd) ELSE rnd
    /\ plru' = IF "PseudoLRU" \in active THEN f("PseudoLRU", plru) ELSE plru

\* policy->access(way) on every active policy
PAccess(way) ==
    /\ pop.n < MaxPolicyOps
    /\ LET f(k, st) == Policy_access(k, st, way) IN Apply(f)
    /\ pop' = [op |-> "access", way |-> way, n |-> pop.n + 1]
    /\ touched' = touched \cup {way}
    /\ rounds' = <<>>
    /\ UNCHANGED <<num_ways, active, victim, twin, stray>>

\* policy->get_victim() on every active policy
PGetVictim ==
    /\ pop.n < MaxPolicyOps
    /\ MayDraw
    /\ \E draw \in Draws :
          victim' = [k \in active |-> Policy_get_victim(k, StateOf(k), draw)]
    /\ Apply(Policy_after_get_victim)
    /\ pop' = [op |-> "get_victim", way |-> 0, n |-> pop.n + 1]
    /\ rounds' = <<>>
    /\ UNCHANGED <<num_ways, active, touched, twin, stray>>

\* policy->reset() on every active policy
PReset ==
    /\ Apply(Policy_reset)
    /\ pop' = [op |-> "reset", way |-> 0, n |-> 0]
    /\ touched' = {}
    /\ rounds' = <<>>
    /\ UNCHANGED <<num_ways, active, victim, twin, stray>>

\* One eviction round of a full set served by a single policy:
\* v = policy->get_victim(); policy->access(v).
PEvictFill ==
    /\ pop.n < MaxPolicyOps
    /\ MayDraw
    /\ Cardinality(active) = 1
    /\ touched = AllWays
    /\ \E draw \in Draws :
          LET v(k) == Policy_get_victim(k, StateOf(k), draw)
              f(k, st) == Policy_access(k, Policy_after_get_victim(k, st), v(k))
          IN  /\ Apply(f)
              /\ victim' = [k \in active |-> v(k)]
              /\ rounds' = Append(rounds, v(CHOOSE k \in active : TRUE))
    /\ pop' = [op |-> "evict_fill", way |-> 0, n |-> pop.n + 1]
    /\ UNCHANGED <<num_ways, active, touched, twin, stray>>

PolicyNext ==
    \/ \E way \in AllWays : PAccess(way) /\ UNCHANGED <<cacheVars, dmVars, ctorVars>>
    \/ PGetVictim /\ UNCHANGED <<cacheVars, dmVars, ctorVars>>
    \/ PReset /\ UNCHANGED <<cacheVars, dmVars, ctorVars>>
    \/ PEvictFill /\ UNCHANGED <<cacheVars, dmVars, ctorVars>>

SpecPolicy == PolicyInit /\ [][PolicyNext]_vars

(***************************************************************************)
(* The policy test program (specification SpecTrace): read_trace admits    *)
(* the way numbers 0..15 of the trace file and skips the others; main      *)
(* builds 4-way policies and test_policy feeds each admitted number to     *)
(* access() and then calls get_victim().  An access() that indexes a       *)
(* vector out of bounds has undefined behaviour: the element it reads may  *)
(* hold any value, its write lands outside the vector, or the program is   *)
(* stopped or its memory corrupted (Wild), after which nothing more is     *)
(* said about it.                                                          *)
(***************************************************************************)
Wild == [wild |-> TRUE]

\* The vector elements access(way) reads or writes.
LRUTracker_access_uses(t, way) == IF way < t.num_ways THEN {way} ELSE {}

LRU_access_uses(L, way) == {way}

FIFO_access_uses(F, way) == {way}

RECURSIVE PseudoLRU_access_uses(_, _, _, _)
PseudoLRU_access_uses(P, level, bit_idx, pos) ==
    IF ~(level < P.max_depth) THEN {}
    ELSE LET subtree_size == ShiftLeft(1, P.max_depth - level - 1)
             is_right == pos >= subtree_size
             pos1 == IF is_right THEN pos - subtree_size ELSE pos
             next_idx == 2 * bit_idx + (IF is_right THEN 2 ELSE 1)
         IN  IF next_idx >= P.num_bits THEN {bit_idx}
             ELSE {bit_idx} \cup PseudoLRU_access_uses(P, level + 1, next_idx, pos1)

\* Those of them that lie outside the vector.
Policy_access_strays(k, st, way) ==
    CASE k = "CounterLRU" -> LRUTracker_access_uses(st, way) \ DOMAIN st.last_access
      [] k = "ListLRU" -> LRU_access_uses(st, way) \ DOMAIN st.way_nodes
      [] k = "FIFO" -> FIFO_access_uses(st, way) \ DOMAIN st.insertion_order
      [] k = "Random" -> {}
      [] k = "PseudoLRU" -> PseudoLRU_access_uses(st, 0, 0, way) \ DOMAIN st.bits

\* LRU::access when way_nodes[way] lies outside the vector and reads as
\* nullptr: a new Node is linked at the front; the pointer stored into
\* way_nodes[way] lands outside the vector.
LRU_access_stray(L, way) ==
    LET new_node == <<"node", way, Cardinality(DOMAIN L.heap)>>
        grown == [a \in DOMAIN L.heap \cup {new_node} |->
                     IF a \in DOMAIN L.heap THEN L.heap[a] ELSE Node(way)]
    IN  LRU_add_to_front([L EXCEPT !.heap = grown], new_node)

\* FIFO::access when insertion_order[way] lies outside the vector and reads
\* as 0: the stamp lands outside the vector, the clock advances.
FIFO_access_stray(F, way) == [F EXCEPT !.insertion_time = F.insertion_time + 1]

\* The states policy->access(way) can leave.
Policy_access_outcomes(k, st, way) ==
    IF Policy_access_strays(k, st, way) = {} THEN {Policy_access(k, st, way)}
    ELSE CASE k = "ListLRU" -> {LRU_access_stray(st, way), Wild}
           [] k = "FIFO" -> {st, FIFO_access_stray(st, way), Wild}

TraceInit ==
    /\ num_ways = TestWays
    /\ \E k \in Kinds : active = {k}
    /\ ctr = IF "CounterLRU" \in active THEN Policy_new("CounterLRU", num_ways) ELSE NotBuilt
    /\ lst = IF "ListLRU" \in active THEN Policy_new("ListLRU", num_ways) ELSE NotBuilt
    /\ fifo = IF "FIFO" \in active THEN Policy_new("FIFO", num_ways) ELSE NotBuilt
    /\ rnd = IF "Random" \in active THEN Policy_new("Random", num_ways) ELSE NotBuilt
    /\ plru = IF "PseudoLRU" \in active THEN Policy_new("PseudoLRU", num_ways) ELSE NotBuilt
    /\ pop = NoPolicyCall
    /\ victim = [k \in active |-> NoWay]
    /\ rounds = <<>>
    /\ touched = {}
    /\ twin = NotBuilt
    /\ stray = {}
    /\ CacheIdle
    /\ DmIdle
    /\ CtorIdle

\* read_trace: a number outside 0..15 is reported and skipped.
TraceSkip(raw) ==
    /\ pop.n < MaxTraceLen
    /\ raw < 0 \/ raw > MaxTraceWay
    /\ pop' = [op |-> "skip", way |-> raw, n |-> pop.n + 1]
    /\ UNCHANGED <<num_ways, active, ctr, lst, fifo, rnd, plru, victim, rounds,
                   touched, twin, stray>>

\* test_policy, one turn of its loop on an admitted number:
\* policy->access(way); int victim = policy->get_victim();
TraceFeed(way) ==
    /\ pop.n < MaxTraceLen
    /\ ~(way < 0 \/ way > MaxTraceWay)
    /\ \A k \in active : StateOf(k) # Wild
    /\ \E k \in active, draw \in Draws :
          \E st \in Policy_access_outcomes(k, StateOf(k), way) :
             LET after == IF st = Wild THEN Wild ELSE Policy_after_get_victim(k, st)
                 f(j, old) == after
             IN  /\ Apply(f)
                 /\ victim' = [j \in active |->
                                  IF st = Wild THEN victim[j]
                                  ELSE Policy_get_victim(k, st, draw)]
                 /\ stray' = Policy_access_strays(k, StateOf(k), way)
    /\ pop' = [op |-> "feed", way |-> way, n |-> pop.n + 1]
    /\ touched' = touched \cup {way}
    /\ UNCHANGED <<num_ways, active, rounds, twin>>

TraceNext ==
    \/ \E way \in 0..MaxTraceWay :
          TraceFeed(way) /\ UNCHANGED <<cacheVars, dmVars, ctorVars>>
    \/ \E raw \in {-1, MaxTraceWay + 1} :
          TraceSkip(raw) /\ UNCHANGED <<cacheVars, dmVars, ctorVars>>

SpecTrace == TraceInit /\ [][TraceNext]_vars

(***************************************************************************)
(* Two Random policies built alike (specification SpecSeed).  The          *)
(* constructor takes the way count only and seeds the generator from       *)
(* std::random_device, so each policy's draws are its own.                 *)
(***************************************************************************)
SeedInit ==
    /\ num_ways \in 1..MaxWays
    /\ active = {"Random"}
    /\ ctr = NotBuilt
    /\ lst = NotBuilt
    /\ fifo = NotBuilt
    /\ rnd = Random(num_ways)
    /\ twin = Random(num_ways)
    /\ plru = NotBuilt
    /\ pop = NoPolicyCall
    /\ victim = [k \in {"Random", "Twin"} |-> NoWay]
    /\ rounds = <<>>
    /\ touched = {}
    /\ stray = {}
    /\ CacheIdle
    /\ DmIdle
    /\ CtorIdle

\* get_victim() on both policies
SeedGetVictim ==
    /\ pop.n < MaxPolicyOps
    /\ \E d1 \in Random_draws(rnd), d2 \in Random_draws(twin) :
          victim' = [k \in {"Random", "Twin"} |-> IF k = "Random" THEN d1 ELSE d2]
    /\ rnd' = Random_get_victim(rnd)
    /\ twin' = Random_get_victim(twin)
    /\ pop' = [op |-> "get_victim", way |-> 0, n |-> pop.n + 1]
    /\ UNCHANGED <<num_ways, active, ctr, lst, fifo, plru, rounds, touched, stray>>

\* access(way) on both policies
SeedAccess(way) ==
    /\ pop.n < MaxPolicyOps
    /\ rnd' = Random_access(rnd, way)
    /\ twin' = Random_access(twin, way)
    /\ pop' = [op |-> "access", way |-> way, n |-> pop.n + 1]
    /\ touched' = touched \cup {way}
    /\ UNCHANGED <<num_ways, active, ctr, lst, fifo, plru, victim, rounds, stray>>

\* reset() on both policies
SeedReset ==
    /\ pop.n < MaxPolicyOps
    /\ rnd' = Random_reset(rnd)
    /\ twin' = Random_reset(twin)
    /\ pop' = [op |-> "reset", way |-> 0, n |-> pop.n + 1]
    /\ touched' = {}
    /\ UNCHANGED <<num_ways, active, ctr, lst, fifo, plru, victim, rounds, stray>>

SeedNext ==
    \/ SeedGetVictim /\ UNCHANGED <<cacheVars, dmVars, ctorVars>>
    \/ \E way \in AllWays : SeedAccess(way) /\ UNCHANGED <<cacheVars, dmVars, ctorVars>>
    \/ SeedReset /\ UNCHANGED <<cacheVars, dmVars, ctorVars>>

SpecSeed == SeedInit /\ [][SeedNext]_vars

(***************************************************************************)
(* PseudoLRU on its own (specification SpecTree), for each way count its   *)
(* constructor accepts, driven as test_policy drives a policy: access(way) *)
(* then get_victim().  The bit tree is finite, so the calls are not        *)
(* counted.  The constructor is given every way count of -1..MaxTreeArg;   *)
(* where its assertion fails there is no policy to call.                   *)
(***************************************************************************)
TreeWays == {4, 8, 16}

TreeInit ==
    /\ num_ways \in -1..MaxTreeArg
    /\ active = {"PseudoLRU"}
    /\ ctr = NotBuilt
    /\ lst = NotBuilt
    /\ fifo = NotBuilt
    /\ rnd = NotBuilt
    /\ plru = Policy_new("PseudoLRU", num_ways)
    /\ pop = NoPolicyCall
    /\ victim = [k \in active |-> NoWay]
    /\ rounds = <<>>
    /\ touched = {}
    /\ twin = NotBuilt
    /\ stray = {}
    /\ CacheIdle
    /\ DmIdle
    /\ CtorIdle

\* policy->access(way); int victim = policy->get_victim();
TreeUse(way) ==
    /\ plru.built
    /\ plru' = PseudoLRU_access(plru, way)
    /\ victim' = [k \in active |-> PseudoLRU_get_victim(plru')]
    /\ pop' = [op |-> "use", way |-> way, n |-> 0]
    /\ UNCHANGED <<num_ways, active, ctr, lst, fifo, rnd, rounds, touched, twin, stray>>

\* policy->reset()
TreeReset ==
    /\ plru.built
    /\ plru' = PseudoLRU_reset(plru)
    /\ pop' = [op |-> "reset", way |-> 0, n |-> 0]
    /\ UNCHANGED <<num_ways, active, ctr, lst, fifo, rnd, victim, rounds, touched,
                   twin, stray>>

TreeNext ==
    \/ \E way \in AllWays : TreeUse(way) /\ UNCHANGED <<cacheVars, dmVars, ctorVars>>
    \/ TreeReset /\ UNCHANGED <<cacheVars, dmVars, ctorVars>>

SpecTree == TreeInit /\ [][TreeNext]_vars

(***************************************************************************)
(* LRUTracker on its own (specification SpecTracker): access with way      *)
(* arguments in and out of 0..num_ways-1, get_victim and reset in any      *)
(* order.  The argument is a size_t: a negative int arrives as a number    *)
(* above every way, which num_ways + 1 stands for.                         *)
(***************************************************************************)
TrackerInit ==
    /\ num_ways \in 1..MaxTrackerWays
    /\ active = {"CounterLRU"}
    /\ ctr = LRUTracker(num_ways)
    /\ lst = NotBuilt
    /\ fifo = NotBuilt
    /\ rnd = NotBuilt
    /\ plru = NotBuilt
    /\ pop = NoPolicyCall
    /\ victim = [k \in active |-> NoWay]
    /\ rounds = <<>>
    /\ touched = {}
    /\ twin = NotBuilt
    /\ stray = {}
    /\ CacheIdle
    /\ DmIdle
    /\ CtorIdle

\* tracker.access(way)
TrackerAccess(way) ==
    /\ pop.n < MaxTrackerOps
    /\ ctr' = LRUTracker_access(ctr, way)
    /\ pop' = [op |-> "access", way |-> way, n |-> pop.n + 1]
    /\ touched' = touched \cup ({way} \cap AllWays)
    /\ UNCHANGED <<num_ways, active, lst, fifo, rnd, plru, victim, rounds, twin, stray>>

\* tracker.get_victim()
TrackerGetVictim ==
    /\ pop.n < MaxTrackerOps
    /\ victim' = [k \in active |-> LRUTracker_get_victim(ctr)]
    /\ pop' = [op |-> "get_victim", way |-> 0, n |-> pop.n + 1]
    /\ UNCHANGED <<num_ways, active, ctr, lst, fifo, rnd, plru, rounds, touched, twin,
                   stray>>

\* tracker.reset()
TrackerReset ==
    /\ ctr' = LRUTracker_reset(ctr)
    /\ pop' = [op |-> "reset", way |-> 0, n |-> 0]
    /\ touched' = {}
    /\ UNCHANGED <<num_ways, active, lst, fifo, rnd, plru, victim, rounds, twin, stray>>

TrackerNext ==
    \/ \E way \in 0..(num_ways + 1) :
          TrackerAccess(way) /\ UNCHANGED <<cacheVars, dmVars, ctorVars>>
    \/ TrackerGetVictim /\ UNCHANGED <<cacheVars, dmVars, ctorVars>>
    \/ TrackerReset /\ UNCHANGED <<cacheVars, dmVars, ctorVars>>

SpecTracker == TrackerInit /\ [][TrackerNext]_vars

(***************************************************************************)
(* PseudoLRU serving a full set (specification SpecRounds): any accesses,  *)
(* then num_ways eviction rounds, v = get_victim(); access(v), as a cache  *)
(* miss on a full set makes them; `rounds` records the victims.  After     *)
(* num_ways rounds the next series starts from the state reached.          *)
(***************************************************************************)
RoundsInit ==
    /\ num_ways \in TreeWays
    /\ active = {"PseudoLRU"}
    /\ ctr = NotBuilt
    /\ lst = NotBuilt
    /\ fifo = NotBuilt
    /\ rnd = NotBuilt
    /\ plru = Policy_new("PseudoLRU", num_ways)
    /\ pop = NoPolicyCall
    /\ victim = [k \in active |-> NoWay]
    /\ rounds = <<>>
    /\ touched = {}
    /\ twin = NotBuilt
    /\ stray = {}
    /\ CacheIdle
    /\ DmIdle
    /\ CtorIdle

\* policy->access(way), before the eviction rounds begin
RoundsAccess(way) ==
    /\ rounds = <<>>
    /\ plru' = PseudoLRU_access(plru, way)
    /\ pop' = [op |-> "access", way |-> way, n |-> 0]
    /\ victim' = [k \in active |-> NoWay]
    /\ UNCHANGED <<num_ways, active, ctr, lst, fifo, rnd, rounds, touched, twin, stray>>

\* v = policy->get_victim(); policy->access(v)
RoundsEvictFill ==
    /\ Len(rounds) < num_ways
    /\ LET v == PseudoLRU_get_victim(plru)
       IN  /\ plru' = PseudoLRU_access(plru, v)
           /\ victim' = [k \in active |-> v]
           /\ rounds' = Append(rounds, v)
           /\ pop' = [op |-> "evict_fill", way |-> v, n |-> 0]
    /\ UNCHANGED <<num_ways, active, ctr, lst, fifo, rnd, touched, twin, stray>>

\* The record of the last num_ways rounds is dropped; the policy is untouched.
RoundsAgain ==
    /\ Len(rounds) = num_ways
    /\ rounds' = <<>>
    /\ UNCHANGED <<num_ways, active, ctr, lst, fifo, rnd, plru, pop, victim, touched,
                   twin, stray>>

RoundsNext ==
    \/ \E way \in AllWays : RoundsAccess(way) /\ UNCHANGED <<cacheVars, dmVars, ctorVars>>
    \/ RoundsEvictFill /\ UNCHANGED <<cacheVars, dmVars, ctorVars>>
    \/ RoundsAgain /\ UNCHANGED <<cacheVars, dmVars, ctorVars>>

SpecRounds == RoundsInit /\ [][RoundsNext]_vars

(***************************************************************************)
(* Claims about the cache (specification Spec).                            *)
(***************************************************************************)
\* A step that is one access() call: last' names the call, the unprimed
\* variables are the state just before it, the primed ones the state after.
AccessStep == last'.op = "access" /\ nacc' = nacc + 1

Ways(c) == 0..(c.associativity - 1)

\* The set, tag and block the call of an AccessStep addresses.
CallIdx == get_set_index(cfg, last'.addr)

CallTag == get_tag(cfg, last'.addr)

CallBlock == BlockOf(cfg, last'.addr)

AllValid(set) == \A w \in 0..(set.num_ways - 1) : set.lines[w].valid

NumValid(set) == Cardinality({w \in 0..(set.num_ways - 1) : set.lines[w].valid})

\* C1: access reports hit=true iff, just before the call, set index(addr)
\* holds a valid line with tag(addr); equivalently iff the block was accessed
\* earlier since construction/reset and has not been the evicted line of any
\* access since; an access to a block right after an access to that block hits.
C1_HitIffPresent ==
    [][AccessStep =>
        /\ result'.hit <=> (\E w \in Ways(cfg) :
                               /\ sets[CallIdx].lines[w].valid
                               /\ sets[CallIdx].lines[w].tag = CallTag)
        /\ result'.hit <=> (CallBlock \in resident)
        /\ (last.op = "access" /\ BlockOf(cfg, last.addr) = CallBlock) => result'.hit
      ]_vars

\* A hit on a different address of the block accessed just before (offset differs).
C1_Witness ==
    /\ last.op = "access"
    /\ result.hit
    /\ nacc = 2
    /\ stats.misses = 1
    /\ cfg.block_size = 2
    /\ last.addr % 2 = 1

\* C2: a miss reports evicted=true iff all N ways of the target set were valid
\* before the access, and a miss in a set that is not full makes one more way
\* valid: from an empty N-way set, N accesses to distinct tags miss without
\* eviction and the next new tag misses with evicted=true.
C2_EvictIffFull ==
    [][(AccessStep /\ ~result'.hit) =>
        /\ result'.evicted <=> AllValid(sets[CallIdx])
        /\ ~AllValid(sets[CallIdx]) =>
              NumValid(sets'[CallIdx]) = NumValid(sets[CallIdx]) + 1
        /\ AllValid(sets[CallIdx]) => AllValid(sets'[CallIdx])
      ]_vars

\* The (N+1)th distinct tag of a 2-way set: N misses without eviction, then a
\* miss that evicts.
C2_Witness ==
    /\ last.op = "access"
    /\ cfg.associativity = 2
    /\ nacc = 3
    /\ stats.misses = 3
    /\ stats.evictions = 1
    /\ ~result.hit
    /\ result.evicted

\* C3: the (hit, evicted, evicted_tag) outputs of every access equal those of
\* the reference exact-LRU model, so the line evicted from a full set is the
\* resident line whose most recent access is the oldest.
C3_MatchesExactLRU ==
    last.op = "access" =>
        /\ result.hit = refOut.hit
        /\ result.evicted = refOut.evicted
        /\ result.evicted_tag = refOut.evicted_tag

\* An eviction after a hit made way 0 the most recently used: way 1 goes.
C3_Witness ==
    /\ last.op = "access"
    /\ cfg.associativity = 2
    /\ result.evicted
    /\ result.way = 1
    /\ stats.hits >= 1

\* C5: a miss that replaces a valid line adds exactly 1 to evictions, and 1
\* to dirty_evictions iff that line was written since it was installed;
\* hits and misses that fill an invalid way change neither counter.
C5_EvictionCounters ==
    [][AccessStep =>
        LET old == sets[CallIdx].lines[result'.way]
            replaces == ~result'.hit /\ old.valid
            oldBlock == BlockAt(cfg, old.tag, CallIdx)
        IN  /\ stats'.evictions = stats.evictions + (IF replaces THEN 1 ELSE 0)
            /\ stats'.dirty_evictions = stats.dirty_evictions
                  + (IF replaces /\ oldBlock \in written THEN 1 ELSE 0)
      ]_vars

\* A written line has just been evicted, and a never-written one earlier.
C5_Witness ==
    /\ last.op = "access"
    /\ result.evicted
    /\ result.evicted_dirty
    /\ stats.evictions = 2
    /\ stats.dirty_evictions = 1

\* C6: every access adds 1 to exactly one of reads/writes (by its type) and to
\* exactly one of hits/misses (by its outcome), so hits + misses = reads +
\* writes = the number of accesses since construction or the last reset().
C6_AccessCounters ==
    [][AccessStep =>
        /\ stats'.reads = stats.reads + (IF last'.type = "READ" THEN 1 ELSE 0)
        /\ stats'.writes = stats.writes + (IF last'.type = "WRITE" THEN 1 ELSE 0)
        /\ stats'.hits = stats.hits + (IF result'.hit THEN 1 ELSE 0)
        /\ stats'.misses = stats.misses + (IF result'.hit THEN 0 ELSE 1)
        /\ stats'.hits + stats'.misses = nacc'
        /\ stats'.reads + stats'.writes = nacc'
      ]_vars

\* Reads and writes, hits and misses have all been counted.
C6_Witness ==
    /\ stats.reads >= 1
    /\ stats.writes >= 1
    /\ stats.hits >= 1
    /\ stats.misses >= 2
    /\ nacc = MaxAccesses

\* C7: reset() restores exactly the state right after construction: every
\* line invalid and clean with tag 0, every set's stamps 0..N-1 with the
\* clock at N, all six statistics 0 (so a second reset() changes nothing and
\* any trace replays as on a fresh cache).
C7_ResetRestoresConstruction ==
    last.op = "reset" =>
        /\ DOMAIN sets = 0..(cfg.num_sets - 1)
        /\ \A i \in DOMAIN sets :
              /\ sets[i].num_ways = cfg.associativity
              /\ DOMAIN sets[i].lines = Ways(cfg)
              /\ \A w \in Ways(cfg) :
                    /\ ~sets[i].lines[w].valid
                    /\ ~sets[i].lines[w].dirty
                    /\ sets[i].lines[w].tag = 0
                    /\ sets[i].lru.last_access[w] = w
              /\ sets[i].lru.access_counter = cfg.associativity
              /\ sets[i].lru.num_ways = cfg.associativity
        /\ stats.hits = 0 /\ stats.misses = 0
        /\ stats.reads = 0 /\ stats.writes = 0
        /\ stats.evictions = 0 /\ stats.dirty_evictions = 0

\* A reset() after a run that had hit, written and evicted a dirty line.
C7_Witness ==
    /\ last.op = "reset"
    /\ result.evicted_dirty
    /\ cfg.num_sets = 1
    /\ cfg.associativity = 2

\* C14: the AccessResult of every access is consistent with the state before
\* the call: set_index = index(addr) < num_sets, way in [0, associativity);
\* on a hit way held the tag and evicted = evicted_dirty = false; on a miss
\* evicted is true exactly when the chosen way was valid, and then
\* evicted_tag and evicted_dirty are that line's tag and dirty bit;
\* evicted_dirty implies evicted, evicted implies not hit.
C14_ResultConsistent ==
    [][AccessStep =>
        LET r == result'
            old == sets[CallIdx].lines[r.way]
        IN  /\ r.set_index = (last'.addr \div cfg.block_size) % cfg.num_sets
            /\ r.set_index \in 0..(cfg.num_sets - 1)
            /\ r.way \in Ways(cfg)
            /\ r.hit => /\ old.valid /\ old.tag = CallTag
                        /\ ~r.evicted /\ ~r.evicted_dirty
            /\ ~r.hit => /\ r.evicted <=> old.valid
                         /\ r.evicted => /\ r.evicted_tag = old.tag
                                         /\ r.evicted_dirty = old.dirty
            /\ r.evicted_dirty => r.evicted
            /\ r.evicted => ~r.hit
      ]_vars

\* A miss in set 1 that evicted the written line of tag 1.
C14_Witness ==
    /\ last.op = "access"
    /\ ~result.hit
    /\ result.evicted_dirty
    /\ result.evicted_tag = 1
    /\ result.set_index = 1

\* C15: in every reachable state, within each set no two valid lines hold
\* the same tag.
C15_NoDuplicateTags ==
    \A i \in DOMAIN sets : \A w1, w2 \in Ways(cfg) :
        (/\ w1 # w2
         /\ sets[i].lines[w1].valid
         /\ sets[i].lines[w2].valid)
            => sets[i].lines[w1].tag # sets[i].lines[w2].tag

\* A full 2-way set that was hit in way 1 after both ways were filled.
C15_Witness ==
    /\ last.op = "access"
    /\ cfg.associativity = 2
    /\ result.hit
    /\ result.way = 1
    /\ AllValid(sets[result.set_index])

\* C20: on a miss in a set that has an invalid way, the way chosen is the
\* lowest-indexed invalid way, whatever the LRU state of the set is; the
\* LRU victim decides the way only when every way of the set is valid.
C20_EmptyWayFirst ==
    [][(AccessStep /\ ~result'.hit) =>
        LET set == sets[CallIdx]
            empty == {w \in Ways(cfg) : ~set.lines[w].valid}
        IN  /\ empty # {} => /\ result'.way \in empty
                             /\ \A w \in empty : result'.way <= w
            /\ empty = {} => result'.way = LRUTracker_get_victim(set.lru)
            /\ sets'[CallIdx].lines[result'.way].valid
            /\ sets'[CallIdx].lines[result'.way].tag = CallTag
      ]_vars

\* A miss installed in way 1, the only invalid way, after a hit had stamped
\* way 0.
C20_Witness ==
    /\ last.op = "access"
    /\ ~result.hit
    /\ ~result.evicted
    /\ result.way = 1
    /\ stats.hits >= 1

\* C21: line state transitions of access: a READ hit leaves valid, dirty
\* and tag of the hit line unchanged; a WRITE hit sets dirty and leaves valid
\* and tag unchanged; a miss overwrites exactly the chosen line with
\* valid = true, tag = tag(addr), dirty = (type is WRITE); no access changes
\* valid, dirty or tag of any other line (so a dirty line becomes clean only
\* by being replaced).
C21_LineTransitions ==
    [][AccessStep =>
        LET r == result'
            old == sets[CallIdx].lines[r.way]
            new == sets'[CallIdx].lines[r.way]
        IN  /\ (r.hit /\ last'.type = "READ") => new = old
            /\ (r.hit /\ last'.type = "WRITE") =>
                  new = [valid |-> old.valid, dirty |-> TRUE, tag |-> old.tag]
            /\ ~r.hit =>
                  new = [valid |-> TRUE, dirty |-> (last'.type = "WRITE"), tag |-> CallTag]
            /\ \A i \in DOMAIN sets : \A w \in Ways(cfg) :
                  (i # CallIdx \/ w # r.way) => sets'[i].lines[w] = sets[i].lines[w]
            /\ \A i \in DOMAIN sets : \A w \in Ways(cfg) :
                  (sets[i].lines[w].dirty /\ ~sets'[i].lines[w].dirty) =>
                      (~r.hit /\ i = CallIdx /\ w = r.way)
      ]_vars

\* A read hit on a line written earlier: the line is still dirty.
C21_Witness ==
    /\ last.op = "access"
    /\ last.type = "READ"
    /\ result.hit
    /\ sets[result.set_index].lines[result.way].dirty
    /\ stats.writes = 1

\* C30: sets are independent: an access that maps to set i leaves every
\* line and the LRU state of every other set unchanged, and its outcome is
\* that of the reference model of set i alone, which has seen only the
\* accesses that map to set i.
C30_SetsIndependent ==
    [][AccessStep =>
        /\ result'.set_index = CallIdx
        /\ \A j \in DOMAIN sets : j # CallIdx =>
              /\ sets'[j] = sets[j]
              /\ ref'[j] = ref[j]
        /\ LET r == RefAccess(ref[CallIdx], CallTag, cfg.associativity)
           IN  /\ result'.hit = r.hit
               /\ result'.evicted = r.evicted
               /\ result'.evicted_tag = r.evicted_tag
      ]_vars

\* A hit in set 1 while set 0 holds a written line.
C30_Witness ==
    /\ last.op = "access"
    /\ cfg.num_sets = 2
    /\ result.hit
    /\ result.set_index = 1
    /\ sets[0].lines[0].valid
    /\ sets[0].lines[0].dirty

RECURSIVE SumOverSets(_, _)
SumOverSets(f(_), n) == IF n = 0 THEN 0 ELSE f(n - 1) + SumOverSets(f, n - 1)

\* C31: each access notifies the replacement policy of the target set
\* exactly once, for the hit or installed way only: that way's stamp becomes
\* the set's previous clock value, no other stamp changes, the set's clock
\* advances by one and no other set's clock moves; reset() puts every clock
\* back to associativity.  So a set's clock is associativity plus the number
\* of accesses mapped to it since construction or reset(), and the clocks
\* together have advanced by the number of accesses.
C31_OneNotifyPerAccess ==
    [][/\ AccessStep =>
            LET old == sets[CallIdx].lru
                new == sets'[CallIdx].lru
                way == result'.way
            IN  /\ way \in Ways(cfg)
                /\ new.last_access[way] = old.access_counter
                /\ \A w \in Ways(cfg) \ {way} : new.last_access[w] = old.last_access[w]
                /\ new.access_counter = old.access_counter + 1
                /\ \A j \in DOMAIN sets \ {CallIdx} : sets'[j].lru = sets[j].lru
       /\ last'.op = "reset" =>
            \A j \in DOMAIN sets' : sets'[j].lru.access_counter = cfg.associativity
       /\ LET advance(j) == sets'[j].lru.access_counter - cfg.associativity
          IN  SumOverSets(advance, cfg.num_sets) = nacc'
      ]_vars

\* Two sets: two accesses went to set 0, one to set 1, the last one a hit.
C31_Witness ==
    /\ last.op = "access"
    /\ result.hit
    /\ cfg.num_sets = 2
    /\ nacc = 3
    /\ sets[0].lru.access_counter = cfg.associativity + 2
    /\ sets[1].lru.access_counter = cfg.associativity + 1

\* C33: the valid ways of every set are ways 0..k-1 for some k in
\* 0..associativity, and an access never makes a valid line invalid (only
\* reset() does).
C33_ValidWaysArePrefix ==
    [][/\ \A i \in DOMAIN sets' :
            \E k \in 0..cfg.associativity :
                {w \in Ways(cfg) : sets'[i].lines[w].valid} = 0..(k - 1)
       /\ AccessStep =>
            \A i \in DOMAIN sets : \A w \in Ways(cfg) :
                sets[i].lines[w].valid => sets'[i].lines[w].valid
      ]_vars

\* A 2-way set holding one line, in way 0, after a miss and a hit.
C33_Witness ==
    /\ last.op = "access"
    /\ cfg.associativity = 2
    /\ nacc = 2
    /\ result.hit
    /\ sets[result.set_index].lines[0].valid
    /\ ~sets[result.set_index].lines[1].valid

\* C34: evictions <= misses, dirty_evictions <= evictions, dirty_evictions
\* <= writes, and the number of valid lines in the cache is misses -
\* evictions (so misses - evictions <= num_sets * associativity).
C34_StatsBounds ==
    LET valid(i) == NumValid(sets[i])
    IN  /\ stats.evictions <= stats.misses
        /\ stats.dirty_evictions <= stats.evictions
        /\ stats.dirty_evictions <= stats.writes
        /\ SumOverSets(valid, cfg.num_sets) = stats.misses - stats.evictions
        /\ stats.misses - stats.evictions <= cfg.num_sets * cfg.associativity

\* A full cache after a dirty eviction.
C34_Witness ==
    /\ last.op = "access"
    /\ stats.dirty_evictions = 1
    /\ stats.evictions = 2
    /\ stats.writes = 1
    /\ stats.misses - stats.evictions = cfg.num_sets * cfg.associativity

(***************************************************************************)
(* Claims about two caches on one trace (specification SpecWiden).         *)
(***************************************************************************)
\* C37: with the same block size, the same number of sets and the same
\* trace, every access that hits in the N-way cache hits in the 2N-way
\* cache, so the 2N-way cache never has fewer hits.
C37_LRUInclusion ==
    wide.built =>
        /\ wide.cfg.block_size = cfg.block_size
        /\ wide.cfg.num_sets = cfg.num_sets
        /\ wide.cfg.associativity = 2 * cfg.associativity
        /\ (last.op = "access" /\ result.hit) => wide.result.hit
        /\ stats.hits <= wide.stats.hits
        /\ \A w \in Ways(cfg) : sets[0].lines[w].valid =>
              \E v \in Ways(wide.cfg) : /\ wide.sets[0].lines[v].valid
                                        /\ wide.sets[0].lines[v].tag = sets[0].lines[w].tag

\* 2 ways against 4, both caches have evicted, both hit the last access and
\* the 4-way cache has hit more often.
C37_Witness ==
    /\ wide.built
    /\ cfg.associativity = 2
    /\ last.op = "access"
    /\ result.hit
    /\ wide.result.hit
    /\ stats.evictions >= 1
    /\ wide.stats.evictions >= 1
    /\ stats.hits < wide.stats.hits

(***************************************************************************)
(* Claims about the access loops (specification SpecCycle).                *)
(***************************************************************************)
\* C17: cyclically accessing k distinct blocks of one N-way set: if k <= N
\* exactly the first access to each block misses and every later access
\* hits; if k = N + 1 every access misses.  So the alternating pattern
\* A, B, A, B, ... of two conflicting blocks never hits in a 1-way cache and
\* misses only twice in a 2-way cache.
C17_CyclicAccess ==
    cycle.blocks # <<>> =>
        LET k == Len(cycle.blocks)
            first == IF nacc < k THEN nacc ELSE k
        IN  /\ k <= cfg.associativity =>
                  /\ stats.misses = first
                  /\ stats.hits = nacc - first
                  /\ last.op = "access" => (result.hit <=> nacc > k)
            /\ k = cfg.associativity + 1 =>
                  /\ stats.hits = 0
                  /\ stats.misses = nacc
                  /\ last.op = "access" => ~result.hit

\* Two rounds over five blocks of one 4-way set: ten misses.
C17_Witness ==
    /\ cfg.ok
    /\ cfg.associativity = 4
    /\ Len(cycle.blocks) = 5
    /\ nacc = 10
    /\ stats.misses = 10
    /\ stats.evictions = 6

(***************************************************************************)
(* Claims about the direct-mapped cache (specification SpecDirect).        *)
(***************************************************************************)
\* C18: DirectMappedCache is the associativity-1 case of the set-associative
\* logic: for a geometry both accept and every trace, each access reports
\* the same hit/miss in both and leaves line i of the one and way 0 of set i
\* of the other with the same valid, dirty and tag, the addressed line
\* included.
C18_DirectIsOneWay ==
    (dm.built /\ last.op = "access") =>
        /\ dmOut.hit = result.hit
        /\ extract_index(dm, last.addr) = result.set_index
        /\ dm.num_lines = cfg.num_sets
        /\ \A i \in 0..(dm.num_lines - 1) :
              /\ dm.lines[i].valid = sets[i].lines[0].valid
              /\ dm.lines[i].dirty = sets[i].lines[0].dirty
              /\ dm.lines[i].tag = sets[i].lines[0].tag

\* A two-line cache: a hit on the last byte of a written block of line 1,
\* after a conflict miss.
C18_Witness ==
    /\ dm.built
    /\ dm.num_lines = 2
    /\ last.op = "access"
    /\ dmOut.hit
    /\ result.set_index = 1
    /\ dm.lines[1].dirty
    /\ dm.lines[1].tag = 1
    /\ extract_offset(dm, last.addr) = dm.config.block_size - 1
    /\ stats.evictions = 1

(***************************************************************************)
(* Claims about the eviction policies (specification SpecPolicy).          *)
(***************************************************************************)
Returned == pop.op \in {"get_victim", "evict_fill"}

\* C4: CounterLRU (LRUTracker) and ListLRU (class LRU), given the same
\* accesses, return the same way from every get_victim() that follows an
\* access.
C4_SameVictims ==
    (/\ {"CounterLRU", "ListLRU"} \subseteq active
     /\ pop.op = "get_victim"
     /\ touched # {})
        => victim["CounterLRU"] = victim["ListLRU"]

\* C9: get_victim() of every policy variant returns a way in
\* [0, associativity) in every reachable state, also right after
\* construction and right after reset().
C9_VictimInRange ==
    Returned => \A k \in active : victim[k] \in AllWays

\* C10: under FIFO, on a full set, repeated eviction rounds
\* (v := get_victim(); access(v)) victimise each way once per
\* `associativity` rounds: no way comes twice within num_ways consecutive
\* rounds.
C10_FifoRotates ==
    active = {"FIFO"} =>
        \A i, j \in 1..Len(rounds) :
            (i < j /\ j - i < num_ways) => rounds[i] # rounds[j]

\* A step that is one policy->access(way) call of the policy harness.
PAccessStep == pop'.op = "access" /\ pop'.n = pop.n + 1

\* C11: FIFO.access(w) on a way that already has a recorded insertion time
\* changes no FIFO state (no way's timestamp, not the insertion clock), so
\* re-accessing resident ways never changes what get_victim() returns.
C11_FifoReaccessIsNoOp ==
    [][("FIFO" \in active /\ PAccessStep /\ fifo.insertion_order[pop'.way] # 0) =>
        /\ fifo'.insertion_order = fifo.insertion_order
        /\ fifo'.insertion_time = fifo.insertion_time
        /\ FIFO_get_victim(fifo') = FIFO_get_victim(fifo)
      ]_vars

\* The last call re-accessed a way stamped by an earlier call, with every way
\* stamped.
C11_Witness ==
    /\ active = {"FIFO"}
    /\ pop.op = "access"
    /\ num_ways = 2
    /\ touched = AllWays
    /\ fifo.insertion_time = 3
    /\ pop.n = 4

\* C19: before any access, right after construction and right after
\* reset(), get_victim() of CounterLRU (LRUTracker) and of ListLRU (class
\* LRU) both return way 0.
C19_DefaultVictimIsWayZero ==
    (pop.op = "get_victim" /\ touched = {}) =>
        \A k \in active \cap {"CounterLRU", "ListLRU"} : victim[k] = 0

(***************************************************************************)
(* Claims about the policy test program (specification SpecTrace).         *)
(***************************************************************************)
\* C13: access(way) of every policy variant, given any way number the trace
\* reader admits (0..15, so also 4..15 for the 4-way policies of the test),
\* rejects or clamps it: the call uses no element outside its vectors.
C13_NoStrayIndex ==
    pop.op = "feed" => stray = {}

(***************************************************************************)
(* Claims about the Random policy (specification SpecSeed).                *)
(***************************************************************************)
\* C16: two Random policies constructed alike (same seed, same
\* associativity) return the same sequence of get_victim() results: after
\* the same number of draws, whatever access() and reset() calls came
\* between, both have returned the same way.
C16_SameSeedSameVictims ==
    (twin # NotBuilt /\ pop.op = "get_victim") => victim["Random"] = victim["Twin"]

(***************************************************************************)
(* Claims about PseudoLRU (specification SpecTree).                        *)
(***************************************************************************)
\* C12: PseudoLRU.get_victim() never returns the most recently accessed way:
\* for 4, 8 and 16 ways and any access sequence ending with access(w), w in
\* range, the get_victim() that follows returns a way other than w (so for
\* 4 ways after accessing 0, 1, 2, 3 the victim is not way 3).
C12_VictimIsNotLastAccessed ==
    (pop.op = "use" /\ plru.built) => victim["PseudoLRU"] # pop.way

\* 16 ways, the last access went to way 15 with the other half of the tree
\* already marked: the victim is way 7.
C12_Witness ==
    /\ num_ways = 16
    /\ pop.op = "use"
    /\ pop.way = 15
    /\ victim["PseudoLRU"] = 7

PGetVictimStep == pop'.op = "get_victim" /\ pop'.n = pop.n + 1

\* C25: get_victim() of CounterLRU, ListLRU, FIFO and PseudoLRU changes no
\* policy state, so the calls that follow see what they would have seen
\* without it, and a get_victim() directly after a get_victim() returns the
\* same way.
C25_GetVictimIsPure ==
    [][PGetVictimStep =>
        /\ ctr' = ctr
        /\ lst' = lst
        /\ fifo' = fifo
        /\ plru' = plru
        /\ pop.op = "get_victim" =>
              \A k \in active \ {"Random"} : victim'[k] = victim[k]
      ]_vars

\* One access(1) and three get_victim() calls on the two LRU variants.
C25_Witness ==
    /\ active = {"CounterLRU", "ListLRU"}
    /\ num_ways = 4
    /\ pop.op = "get_victim"
    /\ pop.n = 4
    /\ touched = {1}
    /\ ctr.access_counter = num_ways + 1
    /\ victim["CounterLRU"] = 0
    /\ victim["ListLRU"] = 1

\* C28: LRUTracker::access(w), w < num_ways, stamps way w with the clock
\* and then advances the clock, leaving the other stamps alone; get_victim()
\* returns the lowest-indexed way among those with the smallest stamp; a way
\* not accessed since construction or reset() is returned, lowest index
\* first, before any accessed way.
C28_CounterLRU ==
    [][("CounterLRU" \in active) =>
        /\ PAccessStep =>
              /\ pop'.way < num_ways
              /\ ctr'.last_access[pop'.way] = ctr.access_counter
              /\ ctr'.access_counter = ctr.access_counter + 1
              /\ \A w \in AllWays \ {pop'.way} : ctr'.last_access[w] = ctr.last_access[w]
        /\ PGetVictimStep =>
              LET v == victim'["CounterLRU"]
                  fresh == AllWays \ touched
              IN  /\ v \in AllWays
                  /\ \A w \in AllWays : ctr.last_access[v] <= ctr.last_access[w]
                  /\ \A w \in AllWays : ctr.last_access[w] = ctr.last_access[v] => v <= w
                  /\ fresh # {} => (v \in fresh /\ \A w \in fresh : v <= w)
      ]_vars

\* Ways 0 and 2 were accessed: the victim is way 1, the lowest fresh way.
C28_Witness ==
    /\ "CounterLRU" \in active
    /\ num_ways = 4
    /\ pop.op = "get_victim"
    /\ touched = {0, 2}
    /\ ctr.last_access[0] > ctr.last_access[2]
    /\ victim["CounterLRU"] = 1

\* The ways of the list of class LRU from head->next to the tail, most
\* recently used first.
RECURSIVE LRU_list(_, _)
LRU_list(L, current) ==
    IF current = L.tail THEN <<>>
    ELSE <<L.heap[current].way>> \o LRU_list(L, L.heap[current].next)

RecencyList(L) == LRU_list(L, L.heap[L.head].next)

\* C29: class LRU keeps the exact recency order of the ways accessed since
\* construction or reset(): access(w) puts w first (creating its entry on
\* first access) and keeps the order of the others, every accessed way is in
\* the list exactly once, and get_victim() returns the last entry, the one
\* accessed longest ago, and removes nothing.
C29_ListLRU ==
    [][("ListLRU" \in active) =>
        LET old == RecencyList(lst)
        IN  /\ {old[i] : i \in DOMAIN old} = touched
            /\ Len(old) = Cardinality(touched)
            /\ PAccessStep => RecencyList(lst') = <<pop'.way>> \o SeqWithout(old, pop'.way)
            /\ PGetVictimStep =>
                  /\ lst' = lst
                  /\ old # <<>> => victim'["ListLRU"] = old[Len(old)]
      ]_vars

\* Accesses 0, 1, 2, then 0 again: the list is 0, 2, 1 and the victim is 1.
C29_Witness ==
    /\ "ListLRU" \in active
    /\ num_ways = 4
    /\ pop.op = "get_victim"
    /\ pop.n = 5
    /\ RecencyList(lst) = <<0, 2, 1>>
    /\ victim["ListLRU"] = 1

\* C32: once every way has been accessed at least once since construction
\* or reset(), LRUTracker and class LRU, fed the same calls, return the same
\* way from every get_victim().
C32_LRUVariantsAgree ==
    ({"CounterLRU", "ListLRU"} \subseteq active /\ touched = AllWays /\ pop.op = "get_victim") =>
        victim["CounterLRU"] = victim["ListLRU"]

\* Four ways, all accessed, way 2 the one accessed longest ago.
C32_Witness ==
    /\ active = {"CounterLRU", "ListLRU"}
    /\ num_ways = 4
    /\ touched = AllWays
    /\ pop.op = "get_victim"
    /\ pop.n >= 6
    /\ victim["CounterLRU"] = 2
    /\ victim["ListLRU"] = 2

\* C38: in every reachable LRUTracker state, whatever access (way in or out
\* of range), get_victim and reset calls were made, the stamps of the ways
\* are pairwise distinct and each is below the clock; so one way alone holds
\* the smallest stamp and get_victim() returns it without a tie to break.
C38_StampsDistinct ==
    /\ \A i \in AllWays : \A j \in AllWays :
          i # j => ctr.last_access[i] # ctr.last_access[j]
    /\ \A i \in AllWays : ctr.last_access[i] < ctr.access_counter
    /\ DOMAIN ctr.last_access = AllWays
    /\ pop.op = "get_victim" =>
          \A w \in AllWays \ {victim["CounterLRU"]} :
              ctr.last_access[victim["CounterLRU"]] < ctr.last_access[w]

\* Three ways: two accesses counted, then access(3) or access(4) ignored.
C38_Witness ==
    /\ num_ways = 3
    /\ pop.op = "access"
    /\ pop.way >= num_ways
    /\ pop.n = 3
    /\ ctr.access_counter = num_ways + 2
    /\ touched = {0, 1}

\* C27: after reset() every policy variant is in the state its constructor
\* leaves, whatever access() and get_victim() calls came before (so a second
\* reset() changes nothing).
C27_ResetRestoresConstruction ==
    pop.op = "reset" => \A k \in active : StateOf(k) = Policy_new(k, num_ways)

\* The internal node of the tree above leaf `way` at `level` (root = level
\* 0), as an index into bits, and whether the leaf lies in its right subtree.
PathNode(P, way, level) ==
    (Pow2(level) - 1) + (way \div Pow2(P.max_depth - level))

InRightSubtree(P, way, level) ==
    (way \div Pow2(P.max_depth - level - 1)) % 2 = 1

TreeUseStep == plru.built /\ pop'.op = "use" /\ plru' = PseudoLRU_access(plru, pop'.way)

\* C22 as stated: access(w) writes, at each internal node on the path from
\* the root to leaf w, the bit 0 if w is in the node's left subtree and 1 if
\* it is in the right subtree.
C22_BitIsSideOfWay ==
    [][TreeUseStep =>
        \A level \in 0..(plru.max_depth - 1) :
            plru'.bits[PathNode(plru, pop'.way, level)] =
                (IF InRightSubtree(plru, pop'.way, level) THEN 1 ELSE 0)
      ]_vars

\* C22 amended: access(w) writes, at each internal node on the path from the
\* root to leaf w, the bit 1 if w is in the node's left subtree and 0 if it
\* is in the right subtree (the side get_victim() is to take, away from w),
\* and leaves every bit off the path unchanged.
C22_BitPointsAway ==
    [][TreeUseStep =>
        LET path == {PathNode(plru, pop'.way, level) : level \in 0..(plru.max_depth - 1)}
        IN  /\ \A level \in 0..(plru.max_depth - 1) :
                  plru'.bits[PathNode(plru, pop'.way, level)] =
                      (IF InRightSubtree(plru, pop'.way, level) THEN 0 ELSE 1)
            /\ \A i \in DOMAIN plru.bits : i \notin path => plru'.bits[i] = plru.bits[i]
            /\ Cardinality(path) = plru.max_depth
      ]_vars

\* 8 ways, access(5): leaf 5 is right of the root, left of node 2, right of
\* node 5.
C22_Witness ==
    /\ num_ways = 8
    /\ pop.op = "use"
    /\ pop.way = 5
    /\ plru.bits[0] = 0
    /\ plru.bits[2] = 1
    /\ plru.bits[5] = 0
    /\ plru.bits[1] = 1

\* C35: starting from any reachable PseudoLRU state with 4, 8 or 16 ways,
\* the victims of consecutive rounds v = get_victim(); access(v) are pairwise
\* distinct for num_ways rounds: every way is the victim exactly once.
C35_RoundsVisitEveryWay ==
    /\ \A i \in DOMAIN rounds : \A j \in DOMAIN rounds : i # j => rounds[i] # rounds[j]
    /\ \A i \in DOMAIN rounds : rounds[i] \in AllWays
    /\ Len(rounds) = num_ways => {rounds[i] : i \in DOMAIN rounds} = AllWays

\* Eight rounds on 8 ways that began, after some accesses, with way 5.
C35_Witness ==
    /\ num_ways = 8
    /\ Len(rounds) = 8
    /\ rounds[1] = 5
    /\ rounds[2] = 0
    /\ pop.op = "evict_fill"

\* C23: a PseudoLRU policy is constructed only for 4, 8 or 16 ways: any
\* other way count (1, 2 and 32 included) fails; an accepted way count N
\* gives N - 1 decision bits, all 0 after construction, and depth log2(N).
C23_TreeConstructor ==
    /\ num_ways \notin {4, 8, 16} => plru = NotBuilt
    /\ num_ways \in {4, 8, 16} =>
          /\ plru.built
          /\ plru.num_ways = num_ways
          /\ plru.num_bits = num_ways - 1
          /\ DOMAIN plru.bits = 0..(num_ways - 2)
          /\ Pow2(plru.max_depth) = num_ways
          /\ pop.op = "new" => \A i \in DOMAIN plru.bits : plru.bits[i] = 0

\* The power of two 32 was refused.
C23_Witness ==
    /\ num_ways = 32
    /\ pop.op = "new"
    /\ plru = NotBuilt

(***************************************************************************)
(* Claims about the address helpers (specification SpecDecode).            *)
(***************************************************************************)
\* C24: offset(a) = a mod 2^offset_bits; index(a) = (a >> offset_bits) mod
\* num_sets (0 when there is one set); tag(a) = a >> (offset_bits +
\* index_bits); reconstruct(tag(a), index(a)) = a - offset(a); the block
\* after a block maps to the next set index modulo num_sets; two addresses
\* have the same (tag, index) iff they lie in the same block.
C24_DecodeAlgebra ==
    LET c == ctorOut
    IN  /\ \A i \in DOMAIN dec :
              LET d == dec[i]
              IN  /\ d.offset = d.address % (2 ^ c.offset_bits)
                  /\ d.set_index = (d.address \div (2 ^ c.offset_bits)) % c.num_sets
                  /\ c.num_sets = 1 => d.set_index = 0
                  /\ d.tag = d.address \div (2 ^ (c.offset_bits + c.index_bits))
                  /\ d.rebuilt = d.address - d.offset
        /\ Len(dec) = 2 =>
              LET a == dec[1]
                  b == dec[2]
              IN  /\ (a.address \div c.block_size = (b.address \div c.block_size) + 1) =>
                        a.set_index = (b.set_index + 1) % c.num_sets
                  /\ (a.tag = b.tag /\ a.set_index = b.set_index) <=>
                        (a.address \div c.block_size = b.address \div c.block_size)

\* 4 sets of 2-byte blocks: address 6 is in the last set, address 8 wraps to
\* set 0 with the next tag.
C24_Witness ==
    /\ Len(dec) = 2
    /\ ctorOut.num_sets = 4
    /\ ctorOut.block_size = 2
    /\ dec[2].address = 6
    /\ dec[2].set_index = 3
    /\ dec[1].address = 8
    /\ dec[1].set_index = 0
    /\ dec[1].tag = dec[2].tag + 1

(***************************************************************************)
(* Claims about the constructor (specification SpecCtor).                  *)
(***************************************************************************)
IsPowerOfTwo(n) == \E k \in 0..MaxCtorArg : n = 2 ^ k

\* The configurations C8 says must fail.
Rejected(size, block, assoc) ==
    \/ size = 0
    \/ block = 0
    \/ assoc = 0
    \/ ~IsPowerOfTwo(block)
    \/ ~IsPowerOfTwo(assoc)
    \/ (size \div block) \div assoc = 0
    \/ ~IsPowerOfTwo((size \div block) \div assoc)

\* C8: construction aborts, producing no cache, whenever cache_size,
\* block_size or associativity is zero, block_size or associativity is not a
\* power of two, or (cache_size / block_size) / associativity is zero or not
\* a power of two; it succeeds for every other configuration.
C8_ConstructorValidates ==
    ctorIn.called =>
        /\ Rejected(ctorIn.size, ctorIn.block, ctorIn.assoc) => ctorOut = Aborted
        /\ ~Rejected(ctorIn.size, ctorIn.block, ctorIn.assoc) =>
              /\ ctorOut.ok
              /\ ctorOut.cache_size = ctorIn.size
              /\ ctorOut.block_size = ctorIn.block
              /\ ctorOut.associativity = ctorIn.assoc

\* C26: for every configuration the constructor accepts, whatever the
\* address_bits argument, the three fields partition the address:
\* offset_bits + index_bits + tag_bits = address_bits with each width at most
\* address_bits, 2^offset_bits = block_size, 2^index_bits = num_sets, and
\* num_sets is a power of two and at least 1.
C26_FieldWidths ==
    (ctorIn.called /\ ctorOut.ok) =>
        /\ ~ctorOut.tag_bits.wrapped
        /\ ctorOut.offset_bits + ctorOut.index_bits + ctorOut.tag_bits.value = ctorIn.addr_bits
        /\ ctorOut.offset_bits <= ctorIn.addr_bits
        /\ ctorOut.index_bits <= ctorIn.addr_bits
        /\ ctorOut.tag_bits.value <= ctorIn.addr_bits
        /\ 2 ^ ctorOut.offset_bits = ctorOut.block_size
        /\ 2 ^ ctorOut.index_bits = ctorOut.num_sets
        /\ IsPowerOfTwo(ctorOut.num_sets)
        /\ ctorOut.num_sets >= 1

\* C36: for every configuration the constructor accepts the cache built has
\* the configured capacity: num_sets * associativity * block_size =
\* cache_size and get_num_lines() = num_sets * associativity; a cache_size
\* that is not a multiple of block_size * associativity is not rounded down.
C36_CapacityMatches ==
    (ctorIn.called /\ ctorOut.ok) =>
        /\ ctorOut.num_sets * ctorOut.associativity * ctorOut.block_size = ctorOut.cache_size
        /\ ctorOut.num_lines = ctorOut.num_sets * ctorOut.associativity

\* Valid parameters whose derived set count, 3, is not a power of two.
C8_Witness ==
    /\ ctorIn.called
    /\ ctorIn.size = 6
    /\ ctorIn.block = 2
    /\ ctorIn.assoc = 1
    /\ ctorOut = Aborted

====
